---- MODULE Spec2Model ----
(***************************************************************************)
(* playdb storage core: the slotted Page (src/data/page.rs) and the page   *)
(* file behind FileStore (src/store/file_store.rs).                        *)
(*                                                                         *)
(* Bytes are naturals 0..255, byte vectors are sequences (index i of the   *)
(* source is index i + 1 here), a slot index kept in a history variable is *)
(* 1-based with 0 for "none".                                              *)
(*                                                                         *)
(* Arithmetic overflow is a property of the build: with overflow checks    *)
(* (cargo's dev profile) it panics, without them (release profile) it      *)
(* wraps.  overflow_checks is chosen once in Init and never changes.       *)
(***************************************************************************)
EXTENDS FiniteSets, Integers, Sequences, TLC

VARIABLES
    overflow_checks,  \* TRUE: overflow panics; FALSE: overflow wraps
    page,             \* the Page value the caller holds
    panicked,         \* the thread has panicked; nothing runs after it
    last,             \* history: the last operation, its argument and result
    file,             \* the table file: [exists, bytes]
    allocated,        \* history: page ids returned by allocate_page, in order
    layout,           \* the PageDataLayout every call is given: its page_size
    inserted,         \* history: rows of the successful TableAccess.insert calls
    stored_deleted,   \* history: <<page id, slot>> of the slots that were
                      \* marked deleted in the Page last written under that id
    iter,             \* the PageIterator in use, with the page ids it yielded
    cursor            \* the PageRowIterator and the RecordIterator in use on
                      \* the page in hand

vars == <<overflow_checks, page, panicked, last, file, allocated, layout,
          inserted, stored_deleted, iter, cursor>>

(***************************************************************************)
(* Bounds of the model.                                                    *)
(***************************************************************************)
\* page_size handed to PageDataLayout::new
PageSize == 32
\* longest record handed to insert_record
MaxRecLen == 3
\* number of successful insert_record calls on one page
MaxRecords == 3
\* number of pages allocated in one table file
MaxPages == 3
\* longest schema handed to Row::validate
MaxColumns == 2
\* max_len of the Varchar columns
MaxVarcharLen == 3
\* page_size of the layout a TableAccess is given
TablePageSize == 44
\* number of successful TableAccess.insert calls on one table
MaxRows == 3

(***************************************************************************)
(* PageDataLayout constants.                                               *)
(***************************************************************************)
INDEX_NUMBER_ROWS == 0
INDEX_ROW_OFFSET == 2
INDEX_PAGE_ID == 6
INDEX_FREE_SLOTS_OFFSET == 10
INDEX_FREE_SLOTS_START == 14
META_DATA_SIZE == 8
PAGE_HEADER_SIZE == 14
MIN_PAGE_SIZE == 32
SLOT_SIZE == 7
SLOT_RECORD_LENGTH_INDEX == 5
MAX_ROW_LENGTH == 65535

\* Stand-in for 2^64, the range of usize on the only supported target.  TLC
\* integers are 32 bits wide; every length and offset of the model is below
\* 2^16, so a wrapped difference compares with them exactly as it does
\* modulo 2^64.
USIZE_RANGE == 2^30
\* range of u16
U16_RANGE == 65536

page_size == layout
page_data_size == page_size - PAGE_HEADER_SIZE
metadata_size == META_DATA_SIZE

\* PageDataLayout::new refusing MIN_PAGE_SIZE itself
PageDataLayout_new_exclusive(size) ==
    IF size <= MIN_PAGE_SIZE THEN [res |-> "err", page_size |-> 0]
    ELSE [res |-> "ok", page_size |-> size]

\* PageDataLayout::new: res "err" is InvalidPageSize
PageDataLayout_new(size) ==
    IF size < MIN_PAGE_SIZE THEN [res |-> "err", page_size |-> 0]
    ELSE [res |-> "ok", page_size |-> size]

(***************************************************************************)
(* Byte helpers.                                                           *)
(***************************************************************************)
Byte == 0..255

Zeros(n) == [i \in 1..n |-> 0]

\* <int>.to_be_bytes() for a non-negative value, w bytes wide
RECURSIVE to_be_bytes(_, _)
to_be_bytes(n, w) ==
    IF w = 0 THEN <<>> ELSE Append(to_be_bytes(n \div 256, w - 1), n % 256)

\* u16::from_be_bytes / u32::from_be_bytes
RECURSIVE from_be_bytes(_)
from_be_bytes(b) ==
    IF Len(b) = 0 THEN 0
    ELSE from_be_bytes(SubSeq(b, 1, Len(b) - 1)) * 256 + b[Len(b)]

\* i32::from_be_bytes: two's complement of 4 bytes
i32_from_be_bytes(b) ==
    IF b[1] >= 128
    THEN from_be_bytes(<<b[1] - 128, b[2], b[3], b[4]>>) - 1 - 2147483647
    ELSE from_be_bytes(b)

\* buf[start..start + len(src)].copy_from_slice(src), start 0-based
copy_from_slice(buf, start, src) ==
    [i \in 1..Len(buf) |->
        IF i > start /\ i <= start + Len(src) THEN src[i - start] ELSE buf[i]]

\* &buf[from..to], 0-based and half-open
Slice(buf, from, to) == SubSeq(buf, from + 1, to)

Max2(a, b) == IF a >= b THEN a ELSE b

\* a - b on usize without overflow checks
wrapping_sub(a, b) == IF a >= b THEN a - b ELSE USIZE_RANGE - (b - a)

(***************************************************************************)
(* Page.                                                                   *)
(***************************************************************************)
Slot(record_length, page_offset, deleted) ==
    [record_length |-> record_length, page_offset |-> page_offset,
     deleted |-> deleted]

Page_new ==
    [data |-> Zeros(page_data_size),
     data_offset |-> page_data_size,
     number_of_records |-> 0,
     page_id |-> 0,
     slots |-> <<>>,
     slots_offset |-> 0]

set_page_id(p, id) == [p EXCEPT !.page_id = id]

row_data_size(p) == page_data_size - p.data_offset

slot_size(p) == Len(p.slots) * SLOT_SIZE

max_fragmented_free_space(p) ==
    LET lens == {p.slots[i].record_length :
                    i \in {j \in 1..Len(p.slots) : p.slots[j].deleted}}
    IN IF lens = {} THEN 0 ELSE CHOOSE m \in lens : \A l \in lens : l <= m

\* the subtraction of space_remaining underflows
space_remaining_overflows(p) ==
    page_data_size - row_data_size(p) < slot_size(p)

space_remaining(p) ==
    Max2(wrapping_sub(page_data_size - row_data_size(p), slot_size(p)),
         max_fragmented_free_space(p))

can_insert(p, row_bytes) ==
    /\ Len(row_bytes) <= space_remaining(p)
    /\ Len(row_bytes) <= MAX_ROW_LENGTH

allocate_slot(p, page_offset, record_length) ==
    [p EXCEPT !.slots = Append(@, Slot(record_length, page_offset, FALSE))]

\* self.slots.iter_mut().find(|s| s.record_length >= new_record_len && s.deleted)
find_slot(p, new_record_len) ==
    LET hits == {i \in 1..Len(p.slots) :
                    p.slots[i].record_length >= new_record_len
                    /\ p.slots[i].deleted}
    IN IF hits = {} THEN 0 ELSE CHOOSE i \in hits : \A j \in hits : i <= j

\* Result of insert_record: the page as the call leaves it, res in
\* {"ok", "err", "panic"}, and the index of the slot that find returned.
InsertResult(p, res, slot) == [page |-> p, res |-> res, slot |-> slot]

\* insert_record that checks the record against data_offset alone and always
\* appends
insert_record_heap_only(p, row_bytes, checks) ==
    IF Len(row_bytes) > p.data_offset
    THEN InsertResult(p, "err", 0)
    ELSE
    LET start_of_data == p.data_offset - Len(row_bytes)
        copied == [p EXCEPT
                     !.data = copy_from_slice(@, start_of_data, row_bytes),
                     !.data_offset = start_of_data]
    IN InsertResult(
          [allocate_slot(copied, start_of_data, Len(row_bytes))
              EXCEPT !.number_of_records = @ + 1], "ok", 0)

insert_record(p, row_bytes, checks) ==
    IF checks /\ space_remaining_overflows(p)
    THEN InsertResult(p, "panic", 0)
    ELSE IF ~can_insert(p, row_bytes)
    THEN InsertResult(p, "err", 0)
    ELSE
    LET new_record_len == Len(row_bytes)
        idx == find_slot(p, new_record_len)
    IN IF idx # 0
       THEN
         LET slot == p.slots[idx]
             end_of_data == slot.page_offset + Len(row_bytes)
         IN IF end_of_data > Len(p.data)
            THEN InsertResult(p, "panic", idx)
            ELSE
            LET copied == [p EXCEPT !.data =
                              copy_from_slice(@, slot.page_offset, row_bytes)]
            IN IF new_record_len < slot.record_length /\ checks
               THEN InsertResult(copied, "panic", idx)
               ELSE
               LET new_slot_len ==
                       (new_record_len - slot.record_length) % U16_RANGE
                   marked ==
                       IF new_slot_len = 0
                       THEN [copied EXCEPT !.slots[idx].deleted = FALSE]
                       ELSE [copied EXCEPT
                               !.slots[idx].record_length = new_record_len]
                   slotted ==
                       IF new_slot_len > 0
                       THEN allocate_slot(marked, end_of_data, new_record_len)
                       ELSE marked
               IN InsertResult(
                     [slotted EXCEPT !.number_of_records = @ + 1], "ok", idx)
       ELSE
         IF p.data_offset < Len(row_bytes)
         THEN InsertResult(p, "panic", 0)
         ELSE
         LET start_of_data == p.data_offset - Len(row_bytes)
             copied == [p EXCEPT
                          !.data = copy_from_slice(@, start_of_data, row_bytes),
                          !.data_offset = start_of_data]
             new_slot_len == Len(row_bytes)
             slotted ==
                 IF new_slot_len > 0
                 THEN allocate_slot(copied, start_of_data, new_record_len)
                 ELSE copied
         IN InsertResult(
               [slotted EXCEPT !.number_of_records = @ + 1], "ok", 0)

(***************************************************************************)
(* RecordIterator.                                                         *)
(***************************************************************************)
Record(record_index, data) == [record_index |-> record_index, data |-> data]

\* One call of RecordIterator::next from slot_index (0-based): the record
\* found ("none" when the slots are exhausted, "panic" when the slice of a
\* live slot is out of range) and the slot_index the call leaves.
RECURSIVE RecordIterator_next(_, _)
RecordIterator_next(p, slot_index) ==
    IF ~(slot_index < Len(p.slots))
    THEN [found |-> "none", slot_index |-> slot_index]
    ELSE LET slot == p.slots[slot_index + 1]
         IN IF ~slot.deleted
            THEN IF slot.page_offset + slot.record_length > Len(p.data)
                 THEN [found |-> "panic", slot_index |-> slot_index]
                 ELSE [found |-> "some",
                       record |-> Record(slot_index,
                           Slice(p.data, slot.page_offset,
                                 slot.page_offset + slot.record_length)),
                       slot_index |-> slot_index + 1]
            ELSE RecordIterator_next(p, slot_index + 1)

\* The iterator run to its end from slot_index: the records it yields and
\* whether it panicked on the way.
RECURSIVE record_iterator_from(_, _)
record_iterator_from(p, slot_index) ==
    LET n == RecordIterator_next(p, slot_index)
    IN IF n.found = "none" THEN [items |-> <<>>, panic |-> FALSE]
       ELSE IF n.found = "panic" THEN [items |-> <<>>, panic |-> TRUE]
       ELSE LET rest == record_iterator_from(p, n.slot_index)
            IN [items |-> <<n.record>> \o rest.items, panic |-> rest.panic]

record_iterator(p) == record_iterator_from(p, 0)

(***************************************************************************)
(* Page serialization.                                                     *)
(***************************************************************************)
\* the slot loop of Page::serialize, slots i.. (1-based) written over buf
RECURSIVE serialize_slots(_, _, _)
serialize_slots(buf, slots, i) ==
    IF i > Len(slots) THEN [ok |-> TRUE, bytes |-> buf]
    ELSE
    LET next_free_slots_start == INDEX_FREE_SLOTS_START + (i - 1) * SLOT_SIZE
        offset_of_data_index == next_free_slots_start + 1
        length_index == next_free_slots_start + SLOT_RECORD_LENGTH_INDEX
        length_end == length_index + 2
    IN IF length_end > Len(buf)
       THEN [ok |-> FALSE, bytes |-> buf]
       ELSE
       LET b1 == [buf EXCEPT ![next_free_slots_start + 1] = 0]
           b2 == copy_from_slice(b1, offset_of_data_index,
                                 to_be_bytes(slots[i].page_offset, 4))
           b3 == copy_from_slice(b2, length_index,
                                 to_be_bytes(slots[i].record_length, 2))
       IN serialize_slots(b3, slots, i + 1)

\* Page::serialize: [ok, bytes]; ok is FALSE when an index is out of range
\* (the call panics)
serialize(p) ==
    LET b0 == Zeros(page_size)
        b1 == copy_from_slice(b0, INDEX_NUMBER_ROWS,
                              to_be_bytes(p.number_of_records, 2))
        b2 == copy_from_slice(b1, INDEX_ROW_OFFSET,
                              to_be_bytes(p.data_offset, 4))
        b3 == copy_from_slice(b2, INDEX_PAGE_ID, to_be_bytes(p.page_id, 4))
        b4 == copy_from_slice(b3, INDEX_FREE_SLOTS_OFFSET,
                              to_be_bytes(Len(p.slots) * SLOT_SIZE, 4))
        b5 == copy_from_slice(b4, INDEX_FREE_SLOTS_OFFSET + 4, p.data)
    IN serialize_slots(b5, p.slots, 1)

\* Page::deserialize
deserialize(buf) ==
    LET num_rows == from_be_bytes(Slice(buf, INDEX_NUMBER_ROWS, INDEX_ROW_OFFSET))
        offset == i32_from_be_bytes(Slice(buf, INDEX_ROW_OFFSET, INDEX_PAGE_ID))
        id == i32_from_be_bytes(Slice(buf, INDEX_PAGE_ID, INDEX_FREE_SLOTS_OFFSET))
        free_slots_offset ==
            i32_from_be_bytes(Slice(buf, INDEX_FREE_SLOTS_OFFSET,
                                    INDEX_FREE_SLOTS_OFFSET + 4))
        data == Slice(buf, INDEX_FREE_SLOTS_OFFSET + 4, page_size)
        free_slots ==
            [k \in 1..(free_slots_offset \div 7) |->
                LET chunk == Slice(data, (k - 1) * 7, k * 7)
                IN Slot(from_be_bytes(Slice(chunk, 5, 7)),
                        from_be_bytes(Slice(chunk, 1, 5)),
                        chunk[1] = 1)]
    IN [data |-> data,
        data_offset |-> offset,
        number_of_records |-> num_rows,
        page_id |-> id,
        slots |-> free_slots,
        slots_offset |-> free_slots_offset]


(***************************************************************************)
(* PageFileMetadata.                                                       *)
(***************************************************************************)
PageFileMetadata(next_id, number_of_pages) ==
    [next_id |-> next_id, number_of_pages |-> number_of_pages]

PageFileMetadata_new == PageFileMetadata(1, 0)

PageFileMetadata_deserialize(buf) ==
    PageFileMetadata(i32_from_be_bytes(Slice(buf, 0, 4)),
                     i32_from_be_bytes(Slice(buf, 4, 8)))

PageFileMetadata_serialize(m) ==
    copy_from_slice(
        copy_from_slice(Zeros(metadata_size), 0, to_be_bytes(m.next_id, 4)),
        4, to_be_bytes(m.number_of_pages, 4))

\* allocate_next_page_id without `self.number_of_pages += 1`
allocate_next_page_id_uncounted(m) ==
    [id |-> m.next_id,
     metadata |-> PageFileMetadata(m.next_id + 1, m.number_of_pages)]

\* allocate_next_page_id without `self.next_id += 1`
allocate_next_page_id_stuck(m) ==
    [id |-> m.next_id,
     metadata |-> PageFileMetadata(m.next_id, m.number_of_pages + 1)]

\* the id handed out and the metadata after the call
allocate_next_page_id(m) ==
    [id |-> m.next_id,
     metadata |-> PageFileMetadata(m.next_id + 1, m.number_of_pages + 1)]

(***************************************************************************)
(* FileStore.  The table file is [exists, bytes]; every call opens it,     *)
(* works on it and closes it.                                              *)
(***************************************************************************)
\* seek to pos, then write_all(src): the file grows, zero-filled, when the
\* write starts or ends past its end
write_at(bytes, pos, src) ==
    LET n == Max2(Len(bytes), pos + Len(src))
    IN [i \in 1..n |->
          IF i > pos /\ i <= pos + Len(src) THEN src[i - pos]
          ELSE IF i <= Len(bytes) THEN bytes[i] ELSE 0]

\* write_metadata that opens the file with truncate(true)
write_metadata_truncating(f, metadata) ==
    [exists |-> TRUE, bytes |-> PageFileMetadata_serialize(metadata)]

write_metadata(f, metadata) ==
    [exists |-> TRUE,
     bytes |-> write_at(IF f.exists THEN f.bytes ELSE <<>>, 0,
                        PageFileMetadata_serialize(metadata))]

FileStore_init(f) == write_metadata(f, PageFileMetadata_new)

\* [file, ok, metadata]
read_metadata(f) ==
    LET f1 == IF ~f.exists THEN FileStore_init(f) ELSE f
    IN IF Len(f1.bytes) < metadata_size
       THEN [file |-> f1, ok |-> FALSE, metadata |-> PageFileMetadata_new]
       ELSE [file |-> f1, ok |-> TRUE,
             metadata |->
                 PageFileMetadata_deserialize(Slice(f1.bytes, 0, metadata_size))]

\* [res, page]: res is "ok", "err" (StoreError) or "panic"
read_page(f, page_id, checks) ==
    IF ~f.exists THEN [res |-> "err", page |-> Page_new]
    ELSE IF page_id - 1 < 0
    THEN [res |-> IF checks THEN "panic" ELSE "err", page |-> Page_new]
    ELSE
    LET pos == metadata_size + (page_id - 1) * page_size
    IN IF pos + page_size > Len(f.bytes)
       THEN [res |-> "err", page |-> Page_new]
       ELSE [res |-> "ok",
             page |-> deserialize(Slice(f.bytes, pos, pos + page_size))]

\* write_page with page_pos clamped at 0: a page with id 0 goes where page 1
\* is
write_page_clamped(f, p, checks) ==
    LET data == serialize(p)
    IN IF ~data.ok THEN [res |-> "panic", file |-> f]
       ELSE IF ~f.exists THEN [res |-> "err", file |-> f]
       ELSE [res |-> "ok",
             file |-> [f EXCEPT !.bytes =
                 write_at(@, metadata_size
                                + Max2(p.page_id - 1, 0) * page_size,
                          data.bytes)]]

\* write_page without the seek: the page goes to the start of the file
write_page_unseeked(f, p, checks) ==
    LET data == serialize(p)
    IN IF ~data.ok THEN [res |-> "panic", file |-> f]
       ELSE IF ~f.exists THEN [res |-> "err", file |-> f]
       ELSE IF p.page_id - 1 < 0
       THEN [res |-> IF checks THEN "panic" ELSE "err", file |-> f]
       ELSE [res |-> "ok",
             file |-> [f EXCEPT !.bytes = write_at(@, 0, data.bytes)]]

\* write_page seeking to page_id * page_size instead of (page_id - 1)
write_page_shifted(f, p, checks) ==
    LET data == serialize(p)
    IN IF ~data.ok THEN [res |-> "panic", file |-> f]
       ELSE IF ~f.exists THEN [res |-> "err", file |-> f]
       ELSE IF p.page_id - 1 < 0
       THEN [res |-> IF checks THEN "panic" ELSE "err", file |-> f]
       ELSE [res |-> "ok",
             file |-> [f EXCEPT !.bytes =
                 write_at(@, metadata_size + p.page_id * page_size,
                          data.bytes)]]

\* [res, file]
write_page(f, p, checks) ==
    LET data == serialize(p)
    IN IF ~data.ok THEN [res |-> "panic", file |-> f]
       ELSE IF ~f.exists THEN [res |-> "err", file |-> f]
       ELSE IF p.page_id - 1 < 0
       THEN [res |-> IF checks THEN "panic" ELSE "err", file |-> f]
       ELSE [res |-> "ok",
             file |-> [f EXCEPT !.bytes =
                 write_at(@, metadata_size + (p.page_id - 1) * page_size,
                          data.bytes)]]

\* [res, file, page]
allocate_page(f, checks) ==
    LET rm == read_metadata(f)
    IN IF ~rm.ok THEN [res |-> "err", file |-> rm.file, page |-> Page_new]
       ELSE
       LET a == allocate_next_page_id(rm.metadata)
           new_page == set_page_id(Page_new, a.id)
           f2 == write_metadata(rm.file, a.metadata)
           w == write_page(f2, new_page, checks)
       IN [res |-> w.res, file |-> w.file, page |-> new_page]

\* allocate_page stopped after its first write if it wrote the empty page
\* before the metadata
allocate_page_stopped_page_first(f, checks) ==
    LET first(rm, w) ==
            [res |-> IF w.res = "ok" THEN "stopped" ELSE w.res,
             file |-> w.file]
        started(rm) ==
            IF ~rm.ok THEN [res |-> "err", file |-> rm.file]
            ELSE first(rm, write_page(rm.file,
                                      set_page_id(Page_new,
                                          allocate_next_page_id(rm.metadata).id),
                                      checks))
    IN started(read_metadata(f))

\* allocate_page up to the point between write_metadata and write_page, where
\* the process stops: [res, file]; res is "stopped", or "err" when
\* read_metadata failed before anything was written
allocate_page_stopped(f, checks) ==
    LET started(rm) ==
            IF ~rm.ok THEN [res |-> "err", file |-> rm.file]
            ELSE [res |-> "stopped",
                  file |-> write_metadata(
                               rm.file,
                               allocate_next_page_id(rm.metadata).metadata)]
    IN started(read_metadata(f))

(***************************************************************************)
(* Table schema, cells and rows (src/table).  A String is the sequence of  *)
(* its UTF-8 bytes; a column name is a String.                             *)
(***************************************************************************)
\* ColumnType: Int, Varchar(max_len), Byte
ColumnType(kind, max_len) == [kind |-> kind, max_len |-> max_len]
ColumnType_Int == ColumnType("Int", 0)
ColumnType_Varchar(max_len) == ColumnType("Varchar", max_len)
ColumnType_Byte == ColumnType("Byte", 0)

Column(id, name, col_type) == [id |-> id, name |-> name, col_type |-> col_type]

\* Cell: Int(i32), Varchar(String), Byte(u8)
Cell(kind, value) == [kind |-> kind, value |-> value]
Cell_Int(i) == Cell("Int", i)
Cell_Varchar(s) == Cell("Varchar", s)
Cell_Byte(b) == Cell("Byte", b)

Row(deleted, index, cells) ==
    [deleted |-> deleted, index |-> index, cells |-> cells]

\* Result<(), RowValidationError>: Ok, LengthMismatch, TypeMismatch(name),
\* VarcharTooLong(max_len, name)
ValidationResult(kind, max_len, name) ==
    [kind |-> kind, max_len |-> max_len, name |-> name]
Validation_Ok == ValidationResult("Ok", 0, <<>>)
LengthMismatch == ValidationResult("LengthMismatch", 0, <<>>)
TypeMismatch(name) == ValidationResult("TypeMismatch", 0, name)
VarcharTooLong(max_len, name) == ValidationResult("VarcharTooLong", max_len, name)

\* the zip loop of Row::validate with every type checked before any length
RECURSIVE validate_loop_types_first(_, _, _)
validate_loop_types_first(cells, columns, i) ==
    LET wrong == {k \in i..Len(cells) :
                     cells[k].kind # columns[k].col_type.kind}
        long == {k \in i..Len(cells) :
                     /\ cells[k].kind = "Varchar"
                     /\ columns[k].col_type.kind = "Varchar"
                     /\ Len(cells[k].value) > columns[k].col_type.max_len}
    IN IF wrong # {}
       THEN TypeMismatch(columns[CHOOSE k \in wrong : \A j \in wrong : k <= j].name)
       ELSE IF long # {}
       THEN LET k == CHOOSE k \in long : \A j \in long : k <= j
            IN VarcharTooLong(columns[k].col_type.max_len, columns[k].name)
       ELSE Validation_Ok

\* the zip loop of Row::validate from position i (1-based)
RECURSIVE validate_loop(_, _, _)
validate_loop(cells, columns, i) ==
    IF i > Len(cells) THEN Validation_Ok
    ELSE
    LET cell == cells[i]
        column == columns[i]
    IN IF cell.kind = "Int" /\ column.col_type.kind = "Int"
       THEN validate_loop(cells, columns, i + 1)
       ELSE IF cell.kind = "Varchar" /\ column.col_type.kind = "Varchar"
       THEN IF Len(cell.value) > column.col_type.max_len
            THEN VarcharTooLong(column.col_type.max_len, column.name)
            ELSE validate_loop(cells, columns, i + 1)
       ELSE IF cell.kind = "Byte" /\ column.col_type.kind = "Byte"
       THEN validate_loop(cells, columns, i + 1)
       ELSE TypeMismatch(column.name)

\* Row::validate; schema is the sequence of the schema's columns
validate(row, schema) ==
    IF Len(row.cells) # Len(schema) THEN LengthMismatch
    ELSE validate_loop(row.cells, schema, 1)

(***************************************************************************)
(* Row and cell encoding.                                                  *)
(***************************************************************************)
\* i32::to_be_bytes: two's complement, 4 bytes
i32_to_be_bytes(i) ==
    IF i >= 0 THEN to_be_bytes(i, 4)
    ELSE LET low == to_be_bytes(i + 2147483647 + 1, 4)
         IN [low EXCEPT ![1] = @ + 128]

Cell_serialize(cell) ==
    IF cell.kind = "Int" THEN i32_to_be_bytes(cell.value)
    ELSE IF cell.kind = "Varchar"
    THEN to_be_bytes(Len(cell.value) % U16_RANGE, 2) \o cell.value
    ELSE <<cell.value>>

\* the cell loop of Row::serialize
RECURSIVE serialize_cells(_, _)
serialize_cells(cells, i) ==
    IF i > Len(cells) THEN <<>>
    ELSE Cell_serialize(cells[i]) \o serialize_cells(cells, i + 1)

\* Row::serialize: index, deleted flag, cells
Row_serialize(row) ==
    i32_to_be_bytes(row.index) \o <<IF row.deleted THEN 1 ELSE 0>>
        \o serialize_cells(row.cells, 1)

\* String::from_utf8(bytes).is_ok(): well-formed UTF-8 from position i
RECURSIVE from_utf8_ok(_, _)
from_utf8_ok(b, i) ==
    LET cont(k, lo, hi) == k <= Len(b) /\ b[k] >= lo /\ b[k] <= hi
    IN IF i > Len(b) THEN TRUE
       ELSE IF b[i] < 128 THEN from_utf8_ok(b, i + 1)
       ELSE IF b[i] >= 194 /\ b[i] <= 223
       THEN cont(i + 1, 128, 191) /\ from_utf8_ok(b, i + 2)
       ELSE IF b[i] >= 224 /\ b[i] <= 239
       THEN /\ cont(i + 1, IF b[i] = 224 THEN 160 ELSE 128,
                    IF b[i] = 237 THEN 159 ELSE 191)
            /\ cont(i + 2, 128, 191)
            /\ from_utf8_ok(b, i + 3)
       ELSE IF b[i] >= 240 /\ b[i] <= 244
       THEN /\ cont(i + 1, IF b[i] = 240 THEN 144 ELSE 128,
                    IF b[i] = 244 THEN 143 ELSE 191)
            /\ cont(i + 2, 128, 191)
            /\ cont(i + 3, 128, 191)
            /\ from_utf8_ok(b, i + 4)
       ELSE FALSE

\* Result of Cell::deserialize: ok is FALSE for Err(InvalidData)
CellResult(ok, cell, bytes_read) ==
    [ok |-> ok, cell |-> cell, bytes_read |-> bytes_read]
InvalidData == CellResult(FALSE, Cell_Byte(0), 0)

Cell_deserialize(row_data, column) ==
    IF column.col_type.kind = "Int"
    THEN IF Len(row_data) < 4 THEN InvalidData
         ELSE CellResult(TRUE, Cell_Int(i32_from_be_bytes(Slice(row_data, 0, 4))), 4)
    ELSE IF column.col_type.kind = "Varchar"
    THEN IF Len(row_data) < 2 THEN InvalidData
         ELSE LET str_len == from_be_bytes(Slice(row_data, 0, 2))
              IN IF Len(row_data) < 2 + str_len THEN InvalidData
                 ELSE IF str_len > column.col_type.max_len THEN InvalidData
                 ELSE LET str_bytes == Slice(row_data, 2, 2 + str_len)
                      IN IF ~from_utf8_ok(str_bytes, 1) THEN InvalidData
                         ELSE CellResult(TRUE, Cell_Varchar(str_bytes),
                                         2 + str_len)
    ELSE IF Len(row_data) < 1 THEN InvalidData
         ELSE CellResult(TRUE, Cell_Byte(row_data[1]), 1)

\* the column loop of Row::deserialize from column i at offset: [ok, cells,
\* offset]; ok is FALSE when unwrap meets Err(InvalidData)
RECURSIVE deserialize_cells(_, _, _, _)
deserialize_cells(row_data, schema, i, offset) ==
    LET push(c, rest) == [ok |-> rest.ok, cells |-> <<c.cell>> \o rest.cells,
                          offset |-> rest.offset]
        unwrap(c) ==
            IF ~c.ok THEN [ok |-> FALSE, cells |-> <<>>, offset |-> offset]
            ELSE push(c, deserialize_cells(row_data, schema, i + 1,
                                           offset + c.bytes_read))
    IN IF i > Len(schema)
       THEN [ok |-> TRUE, cells |-> <<>>, offset |-> offset]
       ELSE unwrap(Cell_deserialize(Slice(row_data, offset, Len(row_data)),
                                    schema[i]))

\* Row::deserialize reading the cells from offset 0, without the index and
\* the deleted flag in front
Row_deserialize_unframed(row_data, schema) ==
    LET row_of(c) ==
            IF ~c.ok
            THEN [res |-> "panic", row |-> Row(FALSE, 0, <<>>), offset |-> 0]
            ELSE [res |-> "ok", row |-> Row(FALSE, 0, c.cells),
                  offset |-> c.offset]
    IN row_of(deserialize_cells(row_data, schema, 1, 0))

\* Row::deserialize: [res, row, offset]; res is "panic" when a slice or an
\* index is out of range or a cell does not decode
Row_deserialize(row_data, schema) ==
    LET index == i32_from_be_bytes(Slice(row_data, 0, 4))
        deleted == row_data[5] # 0
        row_of(c) ==
            IF ~c.ok
            THEN [res |-> "panic", row |-> Row(FALSE, 0, <<>>), offset |-> 0]
            ELSE [res |-> "ok", row |-> Row(deleted, index, c.cells),
                  offset |-> c.offset]
    IN IF Len(row_data) < 5
       THEN [res |-> "panic", row |-> Row(FALSE, 0, <<>>), offset |-> 0]
       ELSE row_of(deserialize_cells(row_data, schema, 1, 5))

(***************************************************************************)
(* PageRowIterator: the rows of one page.                                  *)
(***************************************************************************)
\* PageRowIterator::next called from offset until it returns None: the rows
\* it yields and whether it panicked on the way
RECURSIVE PageRowIterator_from(_, _, _, _)
PageRowIterator_from(data, offset, end, schema) ==
    LET yield(r, rest) == [rows |-> <<r.row>> \o rest.rows,
                           panic |-> rest.panic]
        next(r) ==
            IF r.res = "panic" THEN [rows |-> <<>>, panic |-> TRUE]
            ELSE yield(r, PageRowIterator_from(data, offset + r.offset, end,
                                               schema))
    IN IF offset >= end THEN [rows |-> <<>>, panic |-> FALSE]
       ELSE next(Row_deserialize(Slice(data, offset, end), schema))

\* PageRowIterator::new(&page, schema) run to its end; page.row_data() is
\* data[data_offset..page_data_size]
PageRowIterator(p, schema) ==
    IF p.data_offset < 0 \/ p.data_offset > page_data_size
    THEN [rows |-> <<>>, panic |-> TRUE]
    ELSE PageRowIterator_from(Slice(p.data, p.data_offset, page_data_size),
                              0, row_data_size(p), schema)

(***************************************************************************)
(* PageIterator as an object: its fields, the page ids it has yielded, in  *)
(* order, whether next has returned None, and (history) how many           *)
(* allocate_page calls had succeeded when it was constructed.              *)
(***************************************************************************)
PageIteratorState(state, current_page_id, total_pages, yielded) ==
    [state |-> state, current_page_id |-> current_page_id,
     total_pages |-> total_pages, yielded |-> yielded,
     allocated_before |-> 0]

\* no iterator constructed yet
NoIterator == PageIteratorState("none", 0, 0, <<>>)

\* PageIterator::new: [res, file, it]; res is "panic" when read_metadata
\* fails (expect)
PageIterator_new(f) ==
    LET made(rm) ==
            IF ~rm.ok
            THEN [res |-> "panic", file |-> rm.file, it |-> NoIterator]
            ELSE [res |-> "ok", file |-> rm.file,
                  it |-> PageIteratorState("open", 1,
                                           rm.metadata.number_of_pages, <<>>)]
    IN made(read_metadata(f))

\* PageIterator::next comparing current_page_id with the number of pages
\* the file's metadata has at the time of the call
PageIterator_next_rereading(it, f, checks) ==
    LET yield(rp) ==
            IF rp.res # "ok" THEN [res |-> "panic", it |-> it, page |-> rp.page]
            ELSE [res |-> "some",
                  it |-> [it EXCEPT !.current_page_id = @ + 1,
                                    !.yielded = Append(@, rp.page.page_id)],
                  page |-> rp.page]
    IN IF it.current_page_id > read_metadata(f).metadata.number_of_pages
       THEN [res |-> "none", it |-> [it EXCEPT !.state = "ended"],
             page |-> Page_new]
       ELSE yield(read_page(f, it.current_page_id, checks))

\* PageIterator::next: [res, it, page]; res is "some", "none" or "panic"
\* (unwrap of a failed read_page)
PageIterator_next(it, f, checks) ==
    LET yield(rp) ==
            IF rp.res # "ok" THEN [res |-> "panic", it |-> it, page |-> rp.page]
            ELSE [res |-> "some",
                  it |-> [it EXCEPT !.current_page_id = @ + 1,
                                    !.yielded = Append(@, rp.page.page_id)],
                  page |-> rp.page]
    IN IF it.current_page_id > it.total_pages
       THEN [res |-> "none", it |-> [it EXCEPT !.state = "ended"],
             page |-> Page_new]
       ELSE yield(read_page(f, it.current_page_id, checks))

(***************************************************************************)
(* PageRowIterator and RecordIterator as objects: the fields a call of     *)
(* next reads and writes, and (history) the number of records yielded.     *)
(***************************************************************************)
Cursor(rows_state, offset, end, records_state, slot_index, steps) ==
    [rows |-> [state |-> rows_state, offset |-> offset, end |-> end],
     records |-> [state |-> records_state, slot_index |-> slot_index,
                  steps |-> steps]]

\* no row iterator and no record iterator in use
NoCursor == Cursor("closed", 0, 0, "closed", 0, 0)

\* PageRowIterator::next that leaves the offset where it is
PageRowIterator_next_stuck(data, offset, end, schema) ==
    IF offset >= end THEN [res |-> "none", offset |-> offset]
    ELSE [res |-> "some", offset |-> offset]

\* one call of PageRowIterator::next: [res, offset]; res is "some", "none"
\* or "panic" (Row::deserialize)
PageRowIterator_next(data, offset, end, schema) ==
    LET step(r) ==
            IF r.res = "panic" THEN [res |-> "panic", offset |-> offset]
            ELSE [res |-> "some", offset |-> offset + r.offset]
    IN IF offset >= end THEN [res |-> "none", offset |-> offset]
       ELSE step(Row_deserialize(Slice(data, offset, end), schema))

(***************************************************************************)
(* PageIterator and TableAccess.  A call's result carries the table file   *)
(* as the call leaves it: read_metadata creates a missing file.            *)
(***************************************************************************)
\* PageIterator::next from current_page_id to total_pages, each page handed
\* to PageRowIterator: the rows in the order they are yielded
RECURSIVE scan_rows(_, _, _, _, _)
scan_rows(f, schema, current_page_id, total_pages, checks) ==
    LET extend(it, rest) == [rows |-> it.rows \o rest.rows,
                             panic |-> rest.panic]
        rows_of(it) ==
            IF it.panic THEN [rows |-> <<>>, panic |-> TRUE]
            ELSE extend(it, scan_rows(f, schema, current_page_id + 1,
                                      total_pages, checks))
        next(rp) ==
            IF rp.res # "ok" THEN [rows |-> <<>>, panic |-> TRUE]
            ELSE rows_of(PageRowIterator(rp.page, schema))
    IN IF current_page_id > total_pages
       THEN [rows |-> <<>>, panic |-> FALSE]
       ELSE next(read_page(f, current_page_id, checks))

\* TableAccess::load_all: [res, rows, file]
load_all(f, schema, checks) ==
    LET collect(rm, sc) == [res |-> IF sc.panic THEN "panic" ELSE "ok",
                            rows |-> IF sc.panic THEN <<>> ELSE sc.rows,
                            file |-> rm.file]
        pages(rm) ==
            IF ~rm.ok THEN [res |-> "panic", rows |-> <<>>, file |-> rm.file]
            ELSE collect(rm, scan_rows(rm.file, schema, 1,
                                       rm.metadata.number_of_pages, checks))
    IN pages(read_metadata(f))

\* char::is_whitespace on the bytes of an ASCII String
is_whitespace(byte) == byte \in {9, 10, 11, 12, 13, 32}

\* str::trim
RECURSIVE trim(_)
trim(str) ==
    IF Len(str) = 0 THEN str
    ELSE IF is_whitespace(str[1]) THEN trim(SubSeq(str, 2, Len(str)))
    ELSE IF is_whitespace(str[Len(str)]) THEN trim(SubSeq(str, 1, Len(str) - 1))
    ELSE str

\* the column loop of find that leaves col_index at 0, the first column
RECURSIVE find_column_first(_, _, _)
find_column_first(schema, col_name, i) ==
    IF i > Len(schema) THEN 0
    ELSE IF schema[i].name = trim(col_name) THEN 1
    ELSE find_column_first(schema, col_name, i + 1)

\* the column loop of find comparing with col_name untrimmed
RECURSIVE find_column_untrimmed(_, _, _)
find_column_untrimmed(schema, col_name, i) ==
    IF i > Len(schema) THEN 0
    ELSE IF schema[i].name = col_name THEN i
    ELSE find_column_untrimmed(schema, col_name, i + 1)

\* the column loop of find from position i (1-based): the position of the
\* first column whose name is col_name.trim(), 0 when there is none
RECURSIVE find_column(_, _, _)
find_column(schema, col_name, i) ==
    IF i > Len(schema) THEN 0
    ELSE IF schema[i].name = trim(col_name) THEN i
    ELSE find_column(schema, col_name, i + 1)

\* Cell == Cell
Cell_eq(a, b) == a = b

\* the page loop of find: the rows kept, in the order they are pushed
RECURSIVE find_rows(_, _, _, _, _, _, _)
find_rows(f, schema, col_index, cell, current_page_id, total_pages, checks) ==
    LET kept(it) == SelectSeq(it.rows,
                              LAMBDA row : Cell_eq(row.cells[col_index], cell))
        extend(it, rest) == [rows |-> kept(it) \o rest.rows,
                             panic |-> rest.panic]
        rows_of(it) ==
            IF it.panic THEN [rows |-> <<>>, panic |-> TRUE]
            ELSE extend(it, find_rows(f, schema, col_index, cell,
                                      current_page_id + 1, total_pages,
                                      checks))
        next(rp) ==
            IF rp.res # "ok" THEN [rows |-> <<>>, panic |-> TRUE]
            ELSE rows_of(PageRowIterator(rp.page, schema))
    IN IF current_page_id > total_pages
       THEN [rows |-> <<>>, panic |-> FALSE]
       ELSE next(read_page(f, current_page_id, checks))

\* TableAccess::find: [res, rows, file]; res "err" is LoadRowsError
find(f, schema, col_name, cell, checks) ==
    LET collect(rm, sc) == [res |-> IF sc.panic THEN "panic" ELSE "ok",
                            rows |-> IF sc.panic THEN <<>> ELSE sc.rows,
                            file |-> rm.file]
        pages(rm, col_index) ==
            IF ~rm.ok THEN [res |-> "panic", rows |-> <<>>, file |-> rm.file]
            ELSE collect(rm, find_rows(rm.file, schema, col_index, cell, 1,
                                       rm.metadata.number_of_pages, checks))
        column(col_index) ==
            IF col_index = 0 THEN [res |-> "err", rows |-> <<>>, file |-> f]
            ELSE pages(read_metadata(f), col_index)
    IN column(find_column(schema, col_name, 1))

\* Result of TableAccess::insert: res is "ok", "invalid" (InsertRowError
\* from validation), "err" (any other InsertRowError) or "panic"; page_id is
\* the page the row was put into (0: none) and allocated_id the page that
\* allocate_page returned on the way (0: none).
TableInsertResult(res, f, page_id, allocated_id) ==
    [res |-> res, file |-> f, page_id |-> page_id,
     allocated_id |-> allocated_id]

\* insert_record and write_page on the page that takes the row
insert_into(f, p, row_data, allocated_id, checks) ==
    LET written(w) == TableInsertResult(w.res, w.file,
                                        IF w.res = "ok" THEN p.page_id ELSE 0,
                                        allocated_id)
        recorded(ir) ==
            IF ir.res # "ok" THEN TableInsertResult(ir.res, f, 0, allocated_id)
            ELSE written(write_page(f, ir.page, checks))
    IN recorded(insert_record(p, row_data, checks))

\* the page loop of insert that never breaks: the row goes into the last
\* page that accepts it
insert_scan_last_fit(f, row_data, current_page_id, total_pages, checks) ==
    LET hits == {k \in current_page_id..total_pages :
                    LET rp == read_page(f, k, checks)
                    IN rp.res = "ok" /\ ~space_remaining_overflows(rp.page)
                       /\ can_insert(rp.page, row_data)}
    IN IF hits = {} THEN TableInsertResult("none", f, 0, 0)
       ELSE LET k == CHOOSE k \in hits : \A j \in hits : j <= k
            IN insert_into(f, read_page(f, k, checks).page, row_data, 0,
                           checks)

\* the page loop of insert from current_page_id: res "none" when no page
\* took the row
RECURSIVE insert_scan(_, _, _, _, _)
insert_scan(f, row_data, current_page_id, total_pages, checks) ==
    LET next(rp) ==
            IF rp.res # "ok" THEN TableInsertResult("panic", f, 0, 0)
            ELSE IF checks /\ space_remaining_overflows(rp.page)
            THEN TableInsertResult("panic", f, 0, 0)
            ELSE IF can_insert(rp.page, row_data)
            THEN insert_into(f, rp.page, row_data, 0, checks)
            ELSE insert_scan(f, row_data, current_page_id + 1, total_pages,
                             checks)
    IN IF current_page_id > total_pages
       THEN TableInsertResult("none", f, 0, 0)
       ELSE next(read_page(f, current_page_id, checks))

\* TableAccess::insert after validation without the page loop: every row
\* goes into a newly allocated page
insert_valid_allocating(f, row, checks) ==
    LET allocated_page(a) ==
            IF a.res # "ok" THEN TableInsertResult(a.res, a.file, 0, 0)
            ELSE insert_into(a.file, a.page, Row_serialize(row),
                             a.page.page_id, checks)
    IN allocated_page(allocate_page(f, checks))

\* TableAccess::insert after validation: the page loop, then allocate_page
insert_valid(f, row, checks) ==
    LET row_data == Row_serialize(row)
        allocated_page(a) ==
            IF a.res # "ok" THEN TableInsertResult(a.res, a.file, 0, 0)
            ELSE insert_into(a.file, a.page, row_data, a.page.page_id, checks)
        scanned(rm, sc) ==
            IF sc.res # "none" THEN sc
            ELSE allocated_page(allocate_page(rm.file, checks))
        pages(rm) ==
            IF ~rm.ok THEN TableInsertResult("panic", rm.file, 0, 0)
            ELSE scanned(rm, insert_scan(rm.file, row_data, 1,
                                         rm.metadata.number_of_pages, checks))
    IN pages(read_metadata(f))

\* TableAccess::insert with the page iterator fetched before the row is
\* validated
insert_validating_late(f, schema, row, checks) ==
    LET late(rm) ==
            IF validate(row, schema) # Validation_Ok
            THEN TableInsertResult("invalid", rm.file, 0, 0)
            ELSE insert_valid(rm.file, row, checks)
    IN late(read_metadata(f))

\* TableAccess::insert
insert(f, schema, row, checks) ==
    IF validate(row, schema) # Validation_Ok
    THEN TableInsertResult("invalid", f, 0, 0)
    ELSE insert_valid(f, row, checks)

(***************************************************************************)
(* Inputs.                                                                 *)
(***************************************************************************)
\* records as the tests build them: [1,2,3], [4,5,6], and their prefixes
Run(start, len) == [i \in 1..len |-> start + i - 1]
Records == {Run(s, l) : s \in {1, 4}, l \in 0..MaxRecLen}

\* the record handed to insert_record on pages that go to the table file
StoreRecords == {Run(1, MaxRecLen)}

\* history record: operation, record argument, result, slot index, page id
Op(op, rec, res, slot, id) ==
    [op |-> op, rec |-> rec, res |-> res, slot |-> slot, id |-> id]
NoOp == Op("none", <<>>, "ok", 0, 0)

\* the String of len bytes "a"
Repeat(byte, len) == [i \in 1..len |-> byte]

\* column names "a", "b", "c", ... by position
ColumnName(k) == <<96 + k>>

\* Row::new(cells)
Row_new(cells) == Row(FALSE, 0, cells)

\* the empty String, Strings of max_len and max_len + 1 bytes, and the
\* two-byte character U+00E4
Strings ==
    {Repeat(97, l) : l \in {0, MaxVarcharLen, MaxVarcharLen + 1}}
        \cup {<<195, 164>>}

ValidateCells ==
    {Cell_Int(42), Cell_Byte(7)} \cup {Cell_Varchar(str) : str \in Strings}

ValidateTypes ==
    {ColumnType_Int, ColumnType_Byte, ColumnType_Varchar(MaxVarcharLen)}

\* the schemas of 1..MaxColumns columns over ValidateTypes
ValidateSchemas ==
    UNION {{[k \in 1..n |-> Column(k, ColumnName(k), t[k])] :
               t \in [1..n -> ValidateTypes]} : n \in 1..MaxColumns}

\* the rows of 0..MaxColumns cells over ValidateCells
ValidateRows ==
    UNION {{Row_new(c) : c \in [1..n -> ValidateCells]} : n \in 0..MaxColumns}

(***************************************************************************)
(* Page operations.                                                        *)
(***************************************************************************)
Init ==
    /\ layout = PageSize
    /\ iter = NoIterator
    /\ cursor = NoCursor
    /\ inserted = <<>>
    /\ stored_deleted = {}
    /\ overflow_checks \in BOOLEAN
    /\ page = Page_new
    /\ panicked = FALSE
    /\ last = NoOp
    /\ file = [exists |-> FALSE, bytes |-> <<>>]
    /\ allocated = <<>>

\* page.insert_record(row_bytes)
InsertRecord(row_bytes) ==
    /\ ~panicked
    /\ page.number_of_records < MaxRecords
    /\ LET r == insert_record(page, row_bytes, overflow_checks)
       IN /\ page' = r.page
          /\ panicked' = (r.res = "panic")
          /\ last' = Op("insert", row_bytes, r.res, r.slot, page.page_id)
    /\ UNCHANGED <<cursor, iter, layout, inserted, stored_deleted, overflow_checks, file, allocated>>

\* page.slots[i].deleted = true, as the tests delete a record
MarkDeleted(i) ==
    /\ ~panicked
    /\ i \in 1..Len(page.slots)
    /\ ~page.slots[i].deleted
    /\ page' = [page EXCEPT !.slots[i].deleted = TRUE]
    /\ last' = Op("delete", <<>>, "ok", i, page.page_id)
    /\ UNCHANGED <<cursor, iter, layout, inserted, stored_deleted, overflow_checks, panicked, file, allocated>>

\* Page::deserialize(&page.serialize(), &layout)
Reload ==
    /\ ~panicked
    /\ LET s == serialize(page)
       IN IF s.ok
          THEN /\ page' = deserialize(s.bytes)
               /\ panicked' = FALSE
               /\ last' = Op("reload", <<>>, "ok", 0, page.page_id)
          ELSE /\ page' = page
               /\ panicked' = TRUE
               /\ last' = Op("reload", <<>>, "panic", 0, page.page_id)
    /\ UNCHANGED <<cursor, iter, layout, inserted, stored_deleted, overflow_checks, file, allocated>>

NextInsert == \E r \in Records : InsertRecord(r)

NextPage ==
    \/ \E r \in Records : InsertRecord(r)
    \/ \E i \in 1..MaxRecords : MarkDeleted(i)

NextPersist ==
    \/ \E r \in Records : InsertRecord(r)
    \/ \E i \in 1..MaxRecords : MarkDeleted(i)
    \/ Reload

\* pages built by insert_record alone
SpecInsert == Init /\ [][NextInsert]_vars
\* pages built by insert_record with slots marked deleted in between
SpecPage == Init /\ [][NextPage]_vars
\* the same, with the page serialized and deserialized in between
SpecPersist == Init /\ [][NextPersist]_vars

(***************************************************************************)
(* Layout construction.                                                    *)
(***************************************************************************)
\* the page sizes handed to PageDataLayout::new
LayoutSizes == 0..(2 * PageSize)

\* layout = PageDataLayout::new(size)?; page = Page::new(&layout): a refused
\* size leaves the layout and the page in use as they are
NewLayout(size) ==
    /\ ~panicked
    /\ LET made(r) ==
               /\ layout' = IF r.res = "ok" THEN r.page_size ELSE layout
               /\ page' = IF r.res = "ok"
                          THEN [Page_new EXCEPT
                                  !.data = Zeros(r.page_size - PAGE_HEADER_SIZE),
                                  !.data_offset =
                                      r.page_size - PAGE_HEADER_SIZE]
                          ELSE page
               /\ last' = [op |-> "new_layout", size |-> size, res |-> r.res]
       IN made(PageDataLayout_new(size))
    /\ UNCHANGED <<cursor, iter, inserted, stored_deleted, overflow_checks, panicked, file,
                   allocated>>

NextLayout == \E size \in LayoutSizes : NewLayout(size)

\* layouts built from every size of the bounds, each with a fresh page
SpecLayout == Init /\ [][NextLayout]_vars

(***************************************************************************)
(* Store operations.                                                       *)
(***************************************************************************)
\* number_of_pages as the file's header has it (0 before the file exists)
pages_on_file ==
    IF file.exists /\ Len(file.bytes) >= metadata_size
    THEN PageFileMetadata_deserialize(Slice(file.bytes, 0, metadata_size))
            .number_of_pages
    ELSE 0

\* page = store.allocate_page(&layout, &table)
AllocatePage ==
    /\ ~panicked
    /\ pages_on_file < MaxPages
    /\ LET r == allocate_page(file, overflow_checks)
       IN /\ file' = r.file
          /\ panicked' = (r.res = "panic")
          /\ page' = IF r.res = "ok" THEN r.page ELSE page
          /\ allocated' =
                IF r.res = "ok" THEN Append(allocated, r.page.page_id)
                ELSE allocated
          /\ last' = Op("allocate", <<>>, r.res, 0, r.page.page_id)
    /\ UNCHANGED <<cursor, iter, layout, inserted, stored_deleted, overflow_checks>>

\* store.write_page(&layout, &page, &table)
WritePage ==
    /\ ~panicked
    /\ LET r == write_page(file, page, overflow_checks)
       IN /\ file' = r.file
          /\ panicked' = (r.res = "panic")
          /\ last' = Op("write", <<>>, r.res, 0, page.page_id)
          /\ stored_deleted' =
                IF r.res = "ok"
                THEN {d \in stored_deleted : d[1] # page.page_id}
                        \cup {<<page.page_id, i>> :
                                 i \in {j \in 1..Len(page.slots) :
                                           page.slots[j].deleted}}
                ELSE stored_deleted
    /\ UNCHANGED <<cursor, iter, layout, inserted, overflow_checks, page, allocated>>

\* page = store.read_page(&layout, page_id, &table)
ReadPage(page_id) ==
    /\ ~panicked
    /\ LET r == read_page(file, page_id, overflow_checks)
       IN /\ panicked' = (r.res = "panic")
          /\ page' = IF r.res = "ok" THEN r.page ELSE page
          /\ last' = Op("read", <<>>, r.res, 0, page_id)
    /\ UNCHANGED <<cursor, iter, layout, inserted, stored_deleted, overflow_checks, file, allocated>>

NextStore ==
    \/ AllocatePage
    \/ WritePage
    \/ \E k \in 1..MaxPages : ReadPage(k)
    \/ \E r \in StoreRecords : InsertRecord(r)

\* a table file under allocate_page, write_page, read_page and insert_record
Spec == Init /\ [][NextStore]_vars

(***************************************************************************)
(* allocate_page interrupted.                                              *)
(***************************************************************************)
\* the number of whole pages the table file holds after its header
pages_present ==
    IF file.exists /\ Len(file.bytes) >= metadata_size
    THEN (Len(file.bytes) - metadata_size) \div page_size
    ELSE 0

\* store.allocate_page(&layout, &table) on a process that stops between
\* write_metadata and write_page; the caller gets no page
AllocatePageStopped ==
    /\ ~panicked
    /\ pages_on_file < MaxPages
    /\ LET stopped(r) ==
               /\ file' = r.file
               /\ last' = Op("allocate_stopped", <<>>, r.res, 0, 0)
       IN stopped(allocate_page_stopped(file, overflow_checks))
    /\ UNCHANGED <<cursor, iter, layout, inserted, stored_deleted, overflow_checks,
                   page, panicked, allocated>>

NextCrash ==
    \/ AllocatePage
    \/ AllocatePageStopped
    \/ WritePage
    \/ \E k \in 1..MaxPages : ReadPage(k)

\* a table file under allocate_page calls that complete or stop half-way,
\* write_page and read_page
SpecCrash == Init /\ [][NextCrash]_vars

(***************************************************************************)
(* Page iteration.                                                         *)
(***************************************************************************)
\* iter = PageIterator::new(&table, &store, &layout)
IterNew ==
    /\ ~panicked
    /\ LET made(r) ==
               /\ file' = r.file
               /\ panicked' = (r.res = "panic")
               /\ iter' = [r.it EXCEPT !.allocated_before = Len(allocated)]
               /\ last' = Op("iter_new", <<>>, r.res, 0, 0)
       IN made(PageIterator_new(file))
    /\ UNCHANGED <<cursor, layout, inserted, stored_deleted, overflow_checks, page,
                   allocated>>

\* page = iter.next()
IterNext ==
    /\ ~panicked
    /\ iter.state = "open"
    /\ LET returned(r) ==
               /\ iter' = r.it
               /\ panicked' = (r.res = "panic")
               /\ page' = IF r.res = "some" THEN r.page ELSE page
               /\ last' = Op("iter_next", <<>>, r.res, 0,
                             IF r.res = "some" THEN r.page.page_id ELSE 0)
       IN returned(PageIterator_next(iter, file, overflow_checks))
    /\ UNCHANGED <<cursor, layout, inserted, stored_deleted, overflow_checks, file,
                   allocated>>

NextIter ==
    \/ AllocatePage
    \/ \E r \in StoreRecords : InsertRecord(r)
    \/ WritePage
    \/ IterNew
    \/ IterNext

\* page iterators over a table file that grows by allocate_page and whose
\* pages are filled and written back
SpecIter == Init /\ [][NextIter]_vars

(***************************************************************************)
(* Row validation.                                                         *)
(***************************************************************************)
\* row.validate(&schema), once on a row and a schema picked from the bounds
Validate(row, schema) ==
    /\ ~panicked
    /\ last.op = "none"
    /\ last' = [op |-> "validate", row |-> row, schema |-> schema,
                res |-> validate(row, schema)]
    /\ UNCHANGED <<cursor, iter, layout, inserted, stored_deleted, overflow_checks, page, panicked, file, allocated>>

NextValidate ==
    /\ last.op = "none"
    /\ \E row \in ValidateRows, schema \in ValidateSchemas :
          Validate(row, schema)

\* Row::validate on every row and schema of the bounds
SpecValidate == Init /\ [][NextValidate]_vars

(***************************************************************************)
(* Row encoding.                                                           *)
(***************************************************************************)
\* the index and deleted flag of the rows handed to Row::serialize
RowHeaders == {<<FALSE, 0>>, <<TRUE, -1>>}

\* Row::deserialize(&row.serialize(), &schema), once on a row and a schema
\* picked from the bounds
RowRoundTrip(row, schema) ==
    /\ ~panicked
    /\ last.op = "none"
    /\ LET decoded(bytes) ==
               last' = [op |-> "round_trip", row |-> row, schema |-> schema,
                        valid |-> validate(row, schema) = Validation_Ok,
                        bytes |-> bytes,
                        res |-> Row_deserialize(bytes, schema)]
       IN decoded(Row_serialize(row))
    /\ UNCHANGED <<cursor, iter, layout, inserted, stored_deleted, overflow_checks, page,
                   panicked, file, allocated>>

NextRow ==
    /\ last.op = "none"
    /\ \E r \in ValidateRows, h \in RowHeaders, schema \in ValidateSchemas :
          RowRoundTrip(Row(h[1], h[2], r.cells), schema)

\* Row::serialize and Row::deserialize on every row and schema of the bounds
SpecRow == Init /\ [][NextRow]_vars

(***************************************************************************)
(* Table operations.                                                       *)
(***************************************************************************)
\* the table's schema: a Byte column "a" and a Varchar column "b"
TableSchema ==
    <<Column(1, ColumnName(1), ColumnType_Byte),
      Column(2, ColumnName(2), ColumnType_Varchar(MaxVarcharLen))>>

\* rows that pass validation: 8 bytes with an empty string, 8 + max_len
\* with a full one
TableRows ==
    {Row_new(<<Cell_Byte(1), Cell_Varchar(<<>>)>>),
     Row_new(<<Cell_Byte(2), Cell_Varchar(<<>>)>>),
     Row_new(<<Cell_Byte(2), Cell_Varchar(Repeat(97, MaxVarcharLen))>>)}

\* rows that fail it: by length, by type, by Varchar length
InvalidRows ==
    {Row_new(<<Cell_Byte(1)>>),
     Row_new(<<Cell_Int(1), Cell_Varchar(<<>>)>>),
     Row_new(<<Cell_Byte(1), Cell_Varchar(Repeat(97, MaxVarcharLen + 1))>>)}

\* arguments of find: ("a", Byte(2)), ("b", Varchar("")), (" a ", Byte(2))
\* and ("c", Byte(2))
FindQueries ==
    {<<<<97>>, Cell_Byte(2)>>, <<<<98>>, Cell_Varchar(<<>>)>>,
     <<<<32, 97, 32>>, Cell_Byte(2)>>, <<<<99>>, Cell_Byte(2)>>}

\* number_of_pages as the header of f has it (0 before the file exists)
pages_in(f) ==
    IF f.exists /\ Len(f.bytes) >= metadata_size
    THEN PageFileMetadata_deserialize(Slice(f.bytes, 0, metadata_size))
            .number_of_pages
    ELSE 0

InitTable ==
    /\ layout = TablePageSize
    /\ iter = NoIterator
    /\ cursor = NoCursor
    /\ inserted = <<>>
    /\ stored_deleted = {}
    /\ overflow_checks \in BOOLEAN
    /\ page = Page_new
    /\ panicked = FALSE
    /\ last = NoOp
    /\ file = [exists |-> FALSE, bytes |-> <<>>]
    /\ allocated = <<>>

\* access.insert(&row)
TableInsert(row) ==
    /\ ~panicked
    /\ Len(inserted) < MaxRows
    /\ LET returns(r) ==
               /\ pages_in(r.file) <= MaxPages
               /\ file' = r.file
               /\ panicked' = (r.res = "panic")
               /\ inserted' = IF r.res = "ok" THEN Append(inserted, row)
                              ELSE inserted
               /\ allocated' = IF r.allocated_id # 0
                               THEN Append(allocated, r.allocated_id)
                               ELSE allocated
               /\ last' = [op |-> "table_insert", row |-> row,
                           res |-> r.res, page_id |-> r.page_id,
                           allocated_id |-> r.allocated_id]
               /\ stored_deleted' =
                      {d \in stored_deleted : d[1] # r.page_id}
       IN returns(insert(file, TableSchema, row, overflow_checks))
    /\ UNCHANGED <<cursor, iter, layout, overflow_checks, page>>

\* access.load_all()
LoadAll ==
    /\ ~panicked
    /\ LET returns(r) ==
               /\ file' = r.file
               /\ panicked' = (r.res = "panic")
               /\ last' = [op |-> "load_all", res |-> r.res, rows |-> r.rows]
       IN returns(load_all(file, TableSchema, overflow_checks))
    /\ UNCHANGED <<cursor, iter, layout, inserted, stored_deleted, overflow_checks, page, allocated>>

\* access.find(col_name, cell)
Find(col_name, cell) ==
    /\ ~panicked
    /\ LET returns(r) ==
               /\ file' = r.file
               /\ panicked' = (r.res = "panic")
               /\ last' = [op |-> "find", col_name |-> col_name,
                           cell |-> cell, res |-> r.res, rows |-> r.rows]
       IN returns(find(file, TableSchema, col_name, cell, overflow_checks))
    /\ UNCHANGED <<cursor, iter, layout, inserted, stored_deleted, overflow_checks, page, allocated>>

NextTable ==
    \/ \E row \in TableRows \cup InvalidRows : TableInsert(row)
    \/ LoadAll
    \/ AllocatePage

NextFind ==
    \/ \E row \in TableRows : TableInsert(row)
    \/ \E q \in FindQueries : Find(q[1], q[2])

NextDelete ==
    \/ \E row \in TableRows : TableInsert(row)
    \/ \E k \in 1..MaxPages : ReadPage(k)
    \/ \E i \in 1..MaxRecords : MarkDeleted(i)
    \/ WritePage
    \/ LoadAll

NextZero ==
    \/ \E row \in TableRows : TableInsert(row)
    \/ AllocatePage
    \/ WritePage

\* one table under TableAccess insert, allocate_page and write_page of the
\* page in hand, which is a freshly constructed page (page_id 0) until
\* allocate_page returns one
SpecZero == InitTable /\ [][NextZero]_vars

NextFault ==
    \/ \E row \in TableRows : TableInsert(row)
    \/ AllocatePageStopped
    \/ LoadAll
    \/ \E q \in FindQueries : Find(q[1], q[2])

\* one table under TableAccess insert, load_all and find, with allocate_page
\* calls of another process that stop half-way: reading a page the metadata
\* counts but the file does not hold fails with an I/O error
SpecFault == InitTable /\ [][NextFault]_vars

(***************************************************************************)
(* A table whose schema admits rows longer than a page holds.              *)
(***************************************************************************)
\* the length of the String that makes a row of WideSchema one byte longer
\* than the data of a page: 5 header bytes, 1 for the Byte, 2 for the length
WideLen == PageSize - PAGE_HEADER_SIZE - 8 + 1

\* a Byte column "a" and a Varchar column "b" of up to WideLen bytes
WideSchema ==
    <<Column(1, ColumnName(1), ColumnType_Byte),
      Column(2, ColumnName(2), ColumnType_Varchar(WideLen))>>

\* valid rows of WideSchema: 8 bytes, 8 + MaxVarcharLen bytes, and
\* page_data_size + 1 bytes
WideRows ==
    {Row_new(<<Cell_Byte(1), Cell_Varchar(<<>>)>>),
     Row_new(<<Cell_Byte(2), Cell_Varchar(Repeat(97, MaxVarcharLen))>>),
     Row_new(<<Cell_Byte(3), Cell_Varchar(Repeat(97, WideLen))>>)}

\* rows that fail validation against WideSchema: by length, by type, by
\* Varchar length
WideInvalidRows ==
    {Row_new(<<Cell_Byte(1)>>),
     Row_new(<<Cell_Int(1), Cell_Varchar(<<>>)>>),
     Row_new(<<Cell_Byte(1), Cell_Varchar(Repeat(97, WideLen + 1))>>)}

\* a table of pages of PageSize bytes, no file yet
InitWide ==
    /\ layout = PageSize
    /\ iter = NoIterator
    /\ cursor = NoCursor
    /\ inserted = <<>>
    /\ stored_deleted = {}
    /\ overflow_checks \in BOOLEAN
    /\ page = Page_new
    /\ panicked = FALSE
    /\ last = NoOp
    /\ file = [exists |-> FALSE, bytes |-> <<>>]
    /\ allocated = <<>>

\* access.insert(&row) on the table of WideSchema
WideInsert(row) ==
    /\ ~panicked
    /\ Len(inserted) < MaxRows
    /\ LET returns(r) ==
               /\ pages_in(r.file) <= MaxPages
               /\ file' = r.file
               /\ panicked' = (r.res = "panic")
               /\ inserted' = IF r.res = "ok" THEN Append(inserted, row)
                              ELSE inserted
               /\ allocated' = IF r.allocated_id # 0
                               THEN Append(allocated, r.allocated_id)
                               ELSE allocated
               /\ last' = [op |-> "table_insert", row |-> row,
                           res |-> r.res, page_id |-> r.page_id,
                           allocated_id |-> r.allocated_id]
       IN returns(insert(file, WideSchema, row, overflow_checks))
    /\ UNCHANGED <<cursor, iter, layout, overflow_checks, page,
                   stored_deleted>>

NextWide ==
    \/ \E row \in WideRows \cup WideInvalidRows : WideInsert(row)
    \/ AllocatePage

\* one table of WideSchema under TableAccess insert, with pages allocated
\* through the store in between
SpecWide == InitWide /\ [][NextWide]_vars

(***************************************************************************)
(* A scan taken one call of next at a time, as load_all and find drive it:  *)
(* PageIterator::new, then per page PageRowIterator::new and its next      *)
(* until None.  The iterators borrow the store and the page, so nothing    *)
(* else runs on them while one is in use.                                  *)
(***************************************************************************)
\* no iterator is in use
Idle ==
    /\ iter.state # "open"
    /\ cursor.rows.state = "closed"
    /\ cursor.records.state = "closed"

\* PageIterator::new(&table, &store, &layout), as load_all and find start
ScanStart ==
    /\ ~panicked
    /\ Idle
    /\ LET made(r) ==
               /\ file' = r.file
               /\ panicked' = (r.res = "panic")
               /\ iter' = [r.it EXCEPT !.allocated_before = Len(allocated)]
               /\ last' = Op("scan_start", <<>>, r.res, 0, 0)
       IN made(PageIterator_new(file))
    /\ UNCHANGED <<cursor, layout, inserted, stored_deleted, overflow_checks,
                   page, allocated>>

\* the for loop over PageIterator takes the next page and constructs
\* PageRowIterator::new(&page, schema) on it: offset 0, end row_data_size
ScanNextPage ==
    /\ ~panicked
    /\ iter.state = "open"
    /\ cursor.rows.state = "closed"
    /\ LET sliced(r) ==
               r.res = "some" /\ (r.page.data_offset < 0
                                  \/ r.page.data_offset > page_data_size)
       IN \E r \in {PageIterator_next(iter, file, overflow_checks)} :
               /\ iter' = r.it
               /\ panicked' = (r.res = "panic" \/ sliced(r))
               /\ page' = IF r.res = "some" THEN r.page ELSE page
               /\ cursor' = IF r.res = "some" /\ ~sliced(r)
                             THEN [cursor EXCEPT !.rows =
                                      [state |-> "open", offset |-> 0,
                                       end |-> row_data_size(r.page)]]
                             ELSE cursor
               /\ last' = Op("scan_page", <<>>,
                             IF sliced(r) THEN "panic" ELSE r.res, 0,
                             IF r.res = "some" THEN r.page.page_id ELSE 0)
    /\ UNCHANGED <<layout, inserted, stored_deleted, overflow_checks, file,
                   allocated>>

\* the inner for loop calls PageRowIterator::next on the page in hand
ScanNextRow ==
    /\ ~panicked
    /\ cursor.rows.state = "open"
    /\ \E r \in {PageRowIterator_next(
                       Slice(page.data, page.data_offset, page_data_size),
                       cursor.rows.offset, cursor.rows.end, TableSchema)} :
               /\ panicked' = (r.res = "panic")
               /\ cursor' = [cursor EXCEPT !.rows =
                                [state |-> IF r.res = "none" THEN "closed"
                                           ELSE "open",
                                 offset |-> r.offset,
                                 end |-> cursor.rows.end]]
               /\ last' = Op("scan_row", <<>>, r.res, 0, page.page_id)
    /\ UNCHANGED <<iter, layout, inserted, stored_deleted, overflow_checks,
                   page, file, allocated>>

\* page.record_iterator() on the page in hand
RecordIterNew ==
    /\ ~panicked
    /\ Idle
    /\ cursor' = [cursor EXCEPT !.records =
                     [state |-> "open", slot_index |-> 0, steps |-> 0]]
    /\ last' = Op("records_new", <<>>, "ok", 0, page.page_id)
    /\ UNCHANGED <<iter, layout, inserted, stored_deleted, overflow_checks,
                   page, panicked, file, allocated>>

\* RecordIterator::next on the page in hand
RecordIterNext ==
    /\ ~panicked
    /\ cursor.records.state = "open"
    /\ \E n \in {RecordIterator_next(page, cursor.records.slot_index)} :
               /\ panicked' = (n.found = "panic")
               /\ cursor' = [cursor EXCEPT !.records =
                                [state |-> IF n.found = "none" THEN "closed"
                                           ELSE "open",
                                 slot_index |-> n.slot_index,
                                 steps |-> IF n.found = "some" THEN @.steps + 1
                                           ELSE @.steps]]
               /\ last' = Op("records_next", <<>>, n.found, 0, page.page_id)
    /\ UNCHANGED <<iter, layout, inserted, stored_deleted, overflow_checks,
                   page, file, allocated>>

NextScan ==
    \/ Idle /\ \E row \in TableRows : TableInsert(row)
    \/ Idle /\ \E i \in 1..MaxRecords : MarkDeleted(i)
    \/ ScanStart
    \/ ScanNextPage
    \/ ScanNextRow
    \/ RecordIterNew
    \/ RecordIterNext

\* one table under TableAccess insert and scans of it taken call by call,
\* with the record iterator run on the pages the scan hands out
SpecScan == InitTable /\ [][NextScan]_vars

\* one table under TableAccess insert and load_all, with pages allocated
\* through the store in between
SpecTable == InitTable /\ [][NextTable]_vars
\* one table under TableAccess insert and load_all, with pages read through
\* the store, slots marked deleted in them and the pages written back
SpecDelete == InitTable /\ [][NextDelete]_vars
\* one table under TableAccess insert and find
SpecFind == InitTable /\ [][NextFind]_vars

(***************************************************************************)
(* Properties.                                                             *)
(***************************************************************************)
SlotIndexes(p) == 1..Len(p.slots)
LiveSlots(p) == {i \in SlotIndexes(p) : ~p.slots[i].deleted}

\* the i-th smallest element of a finite set of naturals
RECURSIVE Nth(_, _)
Nth(S, i) ==
    LET m == CHOOSE x \in S : \A y \in S : x <= y
    IN IF i = 1 THEN m ELSE Nth(S \ {m}, i - 1)

\* C1: the slot array never overlaps the record heap: data_offset is at
\* least 7 * len(slots), and so is every slot's page_offset.
C1_SlotsBelowHeap ==
    /\ page.data_offset >= SLOT_SIZE * Len(page.slots)
    /\ \A i \in SlotIndexes(page) :
          page.slots[i].page_offset >= SLOT_SIZE * Len(page.slots)

\* C2: the byte ranges of any two distinct live slots are disjoint.
C2_LiveRangesDisjoint ==
    \A i, j \in LiveSlots(page) :
        i # j =>
          \/ page.slots[i].page_offset + page.slots[i].record_length
                <= page.slots[j].page_offset
          \/ page.slots[j].page_offset + page.slots[j].record_length
                <= page.slots[i].page_offset

\* C3: every slot, live or deleted, lies inside the record heap
\* [data_offset, page_data_size).
C3_SlotsInsideHeap ==
    \A i \in SlotIndexes(page) :
        /\ page.data_offset <= page.slots[i].page_offset
        /\ page.slots[i].page_offset + page.slots[i].record_length
              <= page_data_size

\* C4: on a page built by insert_record calls, number_of_records is the
\* number of slots that are not deleted.
C4_CountIsLiveSlots ==
    page.number_of_records = Cardinality(LiveSlots(page))

\* C5: after a successful insert_record(R) the record iterator yields R as
\* its last element, or, when a deleted slot was reused, at that slot's
\* index.
C5_InsertedRecordIsYielded ==
    (last.op = "insert" /\ last.res = "ok") =>
        LET it == record_iterator(page)
        IN /\ ~it.panic
           /\ IF last.slot = 0
              THEN /\ Len(it.items) > 0
                   /\ it.items[Len(it.items)].data = last.rec
              ELSE \E k \in 1..Len(it.items) :
                      /\ it.items[k].record_index = last.slot - 1
                      /\ it.items[k].data = last.rec

\* C6: the record iterator yields exactly the records of the live slots,
\* each as data[page_offset .. page_offset + record_length], in ascending
\* slot order, and nothing for a page without slots.
C6_IteratorYieldsLiveRecords ==
    LET it == record_iterator(page)
        live == LiveSlots(page)
    IN /\ ~it.panic
       /\ Len(it.items) = Cardinality(live)
       /\ \A k \in 1..Len(it.items) :
             LET i == Nth(live, k)
             IN /\ it.items[k].record_index = i - 1
                /\ it.items[k].data =
                      Slice(page.data, page.slots[i].page_offset,
                            page.slots[i].page_offset
                               + page.slots[i].record_length)

\* C7: serializing a page, deserializing the bytes and serializing again
\* gives the same bytes.
C7_RoundTripBitExact ==
    LET s == serialize(page)
    IN /\ s.ok
       /\ LET t == serialize(deserialize(s.bytes))
          IN t.ok /\ t.bytes = s.bytes

\* C8: the deserialized image of a page built by insert_record calls has
\* the page's id and slots, and its record iterator yields the same records.
C8_ReloadKeepsPage ==
    LET s == serialize(page)
    IN /\ s.ok
       /\ LET q == deserialize(s.bytes)
          IN /\ q.page_id = page.page_id
             /\ q.slots = page.slots
             /\ record_iterator(q) = record_iterator(page)

\* C9: a slot that is deleted when the page is serialized has flag byte 1 in
\* its entry, is deleted after deserialize, and is skipped by the reloaded
\* page's record iterator.
C9_DeletedFlagPersists ==
    LET s == serialize(page)
    IN s.ok =>
         LET q == deserialize(s.bytes)
             it == record_iterator(q)
         IN \A i \in SlotIndexes(page) :
               page.slots[i].deleted =>
                 /\ s.bytes[INDEX_FREE_SLOTS_START + (i - 1) * SLOT_SIZE + 1] = 1
                 /\ q.slots[i].deleted
                 /\ \A k \in 1..Len(it.items) :
                       it.items[k].record_index # i - 1

\* C10: on a fresh table file the successive allocate_page calls return the
\* page ids 1, 2, 3, ...
C10_AllocatedIdsCountUp ==
    \A i \in 1..Len(allocated) : allocated[i] = i

\* C10: a second page has just been allocated
C10_Witness ==
    /\ last.op = "allocate"
    /\ last.res = "ok"
    /\ Len(allocated) >= 2
    /\ page.page_id = Len(allocated)

\* C11: every page id that allocate_page has returned reads back, after any
\* further allocate_page, write_page and insert_record calls, as a page whose
\* page_id is that id.
C11_AllocatedPageReadsBackItsId ==
    \A i \in 1..Len(allocated) :
        LET r == read_page(file, allocated[i], overflow_checks)
        IN /\ r.res = "ok"
           /\ r.page.page_id = allocated[i]

\* C11: page 1 is read back after a later allocation and after a record was
\* written into it
C11_Witness ==
    /\ last.op = "read"
    /\ last.res = "ok"
    /\ last.id = 1
    /\ Len(allocated) >= 2
    /\ page.page_id = 1
    /\ page.number_of_records > 0

\* C12: after any sequence of allocate_page and TableAccess.insert calls on
\* a fresh table file the stored metadata has number_of_pages = next_id - 1,
\* next_id >= 1 and number_of_pages >= 0.
C12_MetadataCounts ==
    file.exists =>
        LET rm == read_metadata(file)
        IN /\ rm.ok
           /\ rm.metadata.number_of_pages = rm.metadata.next_id - 1
           /\ rm.metadata.next_id >= 1
           /\ rm.metadata.number_of_pages >= 0

\* C12: an insert has allocated page 2 after allocate_page returned page 1
C12_Witness ==
    /\ last.op = "table_insert"
    /\ last.res = "ok"
    /\ last.allocated_id = 2
    /\ pages_on_file = 2
    /\ page.page_id = 1

\* C13: TableAccess.insert of a row that fails validation returns the error
\* and leaves the table file as it was: nothing is written, and a file that
\* does not exist is not created (as the first read of its metadata would).
C13_InvalidRowTouchesNothing ==
    [][\A row \in TableRows \cup InvalidRows :
          (validate(row, TableSchema) # Validation_Ok /\ TableInsert(row)) =>
              /\ last'.res = "invalid"
              /\ file' = file
              /\ allocated' = allocated
              /\ inserted' = inserted]_vars

\* C13: an invalid row was refused while the table file did not exist
C13_Witness ==
    /\ last.op = "table_insert"
    /\ last.res = "invalid"
    /\ validate(last.row, TableSchema) = LengthMismatch
    /\ ~file.exists

\* the bytes of page k in the table file f
PageBytes(f, k) ==
    Slice(f.bytes, metadata_size + (k - 1) * page_size,
          metadata_size + k * page_size)

\* C14: a completed TableAccess.insert of a valid row is first-fit in page-id
\* order: the row goes into the smallest page id p whose stored page has
\* can_insert true, page p alone is written back and every other page and
\* the header stay as they were; only when no stored page accepts the row is
\* a new page allocated, and the row goes into it.
C14_FirstFit ==
    [][\A row \in TableRows :
          (TableInsert(row) /\ last'.res = "ok") =>
             LET row_data == Row_serialize(row)
                 n == pages_in(file)
                 stored(k) == read_page(file, k, overflow_checks).page
                 fits == {k \in 1..n : can_insert(stored(k), row_data)}
             IN IF fits # {}
                THEN LET p == CHOOSE k \in fits : \A j \in fits : k <= j
                     IN /\ last'.page_id = p
                        /\ last'.allocated_id = 0
                        /\ Len(file'.bytes) = Len(file.bytes)
                        /\ pages_in(file') = n
                        /\ \A k \in 1..n :
                              k # p => PageBytes(file', k) = PageBytes(file, k)
                        /\ PageBytes(file', p) =
                              serialize(insert_record(stored(p), row_data,
                                                      overflow_checks).page)
                                 .bytes
                ELSE /\ last'.allocated_id = n + 1
                     /\ last'.page_id = n + 1
                     /\ pages_in(file') = n + 1
                     /\ \A k \in 1..n :
                           PageBytes(file', k) = PageBytes(file, k)]_vars

\* C14: the row went into page 2, which is neither the first page nor the
\* last one
C14_Witness ==
    /\ last.op = "table_insert"
    /\ last.res = "ok"
    /\ last.page_id = 2
    /\ last.allocated_id = 0
    /\ pages_on_file = 3

\* C15: after n successful TableAccess.insert calls on a fresh table
\* load_all returns n rows, and every inserted row is among them with its
\* original cell values (a row inserted k times is there k times).
C15_InsertedRowsAreLoaded ==
    last.op = "load_all" =>
        /\ last.res = "ok"
        /\ Len(last.rows) = Len(inserted)
        /\ \A i \in 1..Len(inserted) :
              Cardinality({j \in 1..Len(last.rows) :
                              last.rows[j].cells = inserted[i].cells})
                = Cardinality({j \in 1..Len(inserted) :
                                 inserted[j].cells = inserted[i].cells})

\* the rows of the stored page k, one per slot, in ascending slot order
C16_PageRows(k) ==
    LET p == read_page(file, k, overflow_checks).page
    IN [i \in 1..Len(p.slots) |->
          Row_deserialize(
              Slice(p.data, p.slots[i].page_offset,
                    p.slots[i].page_offset + p.slots[i].record_length),
              TableSchema).row]

\* the rows of the stored pages k..n, pages in ascending id order
RECURSIVE C16_RowsFrom(_, _)
C16_RowsFrom(k, n) ==
    IF k > n THEN <<>> ELSE C16_PageRows(k) \o C16_RowsFrom(k + 1, n)

\* C16: load_all returns the rows ordered by page id ascending and, within
\* a page, by slot index ascending (insertion order, as TableAccess never
\* reuses a slot).
C16_RowsInSlotOrder ==
    (last.op = "load_all" /\ last.res = "ok") =>
        last.rows = C16_RowsFrom(1, pages_on_file)

\* the number of positions of the sequence rows that hold row
C17_Count(rows, row) == Cardinality({i \in 1..Len(rows) : rows[i] = row})

\* the rows of the slots of the stored page k that were not marked deleted
\* when the page was stored
C17_LiveRows(k) ==
    LET all == C16_PageRows(k)
    IN SelectSeq([i \in 1..Len(all) |-> [slot |-> i, row |-> all[i]]],
                 LAMBDA e : <<k, e.slot>> \notin stored_deleted)

RECURSIVE C17_LiveRowsFrom(_, _)
C17_LiveRowsFrom(k, n) ==
    IF k > n THEN <<>>
    ELSE LET live == C17_LiveRows(k)
         IN [i \in 1..Len(live) |-> live[i].row] \o C17_LiveRowsFrom(k + 1, n)

\* C17: a table scan yields only live records: the record of a slot that was
\* marked deleted in a page when it was stored is not returned, and the
\* record of every other slot is returned exactly once.
C17_ScanYieldsLiveRecords ==
    (last.op = "load_all" /\ last.res = "ok") =>
        LET live == C17_LiveRowsFrom(1, pages_on_file)
        IN /\ Len(last.rows) = Len(live)
           /\ \A i \in 1..Len(live) :
                 C17_Count(last.rows, live[i]) = C17_Count(live, live[i])

\* C18: find(col_name, cell) returns exactly the rows of load_all, in their
\* order, whose cell at the position of the column named col_name equals
\* the given cell.
C18_FindFiltersLoadAll ==
    (last.op = "find" /\ last.res = "ok") =>
        LET named == {k \in 1..Len(TableSchema) :
                         TableSchema[k].name = trim(last.col_name)}
            pos == CHOOSE k \in named : \A j \in named : k <= j
            all == load_all(file, TableSchema, overflow_checks)
        IN /\ all.res = "ok"
           /\ last.rows =
                 SelectSeq(all.rows, LAMBDA row : row.cells[pos] = last.cell)

\* C18: find on the second column kept some rows of the table and dropped
\* others
C18_Witness ==
    /\ last.op = "find"
    /\ last.res = "ok"
    /\ last.col_name = ColumnName(2)
    /\ Len(last.rows) >= 1
    /\ Len(last.rows) < Len(load_all(file, TableSchema, overflow_checks).rows)

C20_Failing(row, schema) ==
    {k \in 1..Len(schema) :
        \/ row.cells[k].kind # schema[k].col_type.kind
        \/ /\ row.cells[k].kind = "Varchar"
           /\ Len(row.cells[k].value) > schema[k].col_type.max_len}

\* C20: validation returns the first failure in a fixed order: LengthMismatch
\* when the cell count differs from the column count; otherwise, at the first
\* position that fails, TypeMismatch(column name) when the cell's variant
\* differs from the column's type and VarcharTooLong(max_len, column name)
\* when a Varchar is longer in bytes than max_len; Ok when no position fails.
C20_FirstFailureInOrder ==
    last.op = "validate" =>
        LET row == last.row
            schema == last.schema
        IN IF Len(row.cells) # Len(schema)
           THEN last.res = LengthMismatch
           ELSE LET bad == C20_Failing(row, schema)
                IN IF bad = {} THEN last.res = Validation_Ok
                   ELSE LET k == CHOOSE k \in bad : \A j \in bad : k <= j
                        IN IF row.cells[k].kind # schema[k].col_type.kind
                           THEN last.res = TypeMismatch(schema[k].name)
                           ELSE last.res =
                                  VarcharTooLong(schema[k].col_type.max_len,
                                                 schema[k].name)

\* C20: a Varchar too long at the first position wins over a type mismatch
\* at the second
C20_Witness ==
    /\ last.op = "validate"
    /\ Len(last.row.cells) = 2
    /\ Len(last.schema) = 2
    /\ last.res = VarcharTooLong(MaxVarcharLen, ColumnName(1))
    /\ last.row.cells[2].kind # last.schema[2].col_type.kind

\* C21: a row that validates against a schema, serialized and then
\* deserialized with that schema, comes back with the same cells, and the
\* consumed length that deserialize reports is the serialized length.
C21_RowRoundTrip ==
    (last.op = "round_trip" /\ last.valid)
        => /\ last.res.res = "ok"
           /\ last.res.row.cells = last.row.cells
           /\ last.res.offset = Len(last.bytes)

\* a valid two-column row with a deleted flag, a negative index and a
\* Varchar of full length has made the round trip
C21_Witness ==
    /\ last.op = "round_trip" /\ last.valid
    /\ last.row.deleted /\ last.row.index = -1
    /\ Len(last.row.cells) = 2
    /\ last.row.cells[2] = Cell_Varchar(Repeat(97, MaxVarcharLen))
    /\ last.res.res = "ok"
    /\ last.res.row = last.row

\* the encodings of cells i.. one after the other
RECURSIVE C22_CellEncodings(_, _)
C22_CellEncodings(cells, i) ==
    IF i > Len(cells) THEN <<>>
    ELSE (IF cells[i].kind = "Int" THEN i32_to_be_bytes(cells[i].value)
          ELSE IF cells[i].kind = "Byte" THEN <<cells[i].value>>
          ELSE to_be_bytes(Len(cells[i].value), 2) \o cells[i].value)
         \o C22_CellEncodings(cells, i + 1)

\* C22: a serialized row is exactly the concatenation of its cells'
\* encodings in column order (Int 4 bytes, Varchar 2 + length, Byte 1),
\* with nothing in front of the first cell's encoding.
C22_RowIsCellEncodings ==
    (last.op = "round_trip" /\ last.valid)
        => last.bytes = C22_CellEncodings(last.row.cells, 1)

\* the largest record_length among the deleted slots of p, 0 without any
C23_FragmentedFree(p) ==
    LET lens == {p.slots[i].record_length :
                    i \in {j \in 1..Len(p.slots) : p.slots[j].deleted}}
    IN IF lens = {} THEN 0 ELSE CHOOSE m \in lens : \A l \in lens : l <= m

\* page_data_size - row_data_size - 7 * len(slots), as an integer
C23_ContiguousFree(p) ==
    page_data_size - (page_data_size - p.data_offset) - 7 * Len(p.slots)

\* C23: on every page the operations build, can_insert(bytes) returns, and
\* returns true iff len(bytes) <= 65535 and len(bytes) <= max(contiguous_free,
\* fragmented_free).
C23_CanInsertIffFits ==
    ~panicked =>
        \A r \in Records :
            /\ ~(overflow_checks /\ space_remaining_overflows(page))
            /\ can_insert(page, r) <=>
                   (/\ Len(r) <= 65535
                    /\ Len(r) <= Max2(C23_ContiguousFree(page),
                                      C23_FragmentedFree(page)))

\* C24: insert_record returns InsertRowError exactly when can_insert is
\* false, and then the page (slots, data, data_offset, number_of_records) is
\* as it was before the call.
C24_ErrorIffCannotInsert ==
    [][\A r \in Records :
          InsertRecord(r) =>
              /\ (last'.res = "err") <=> ~can_insert(page, r)
              /\ (last'.res = "err") => page' = page]_vars

\* C24: a record was refused by a page that holds two records and has no
\* deleted slot
C24_Witness ==
    /\ last.op = "insert"
    /\ last.res = "err"
    /\ Len(last.rec) = MaxRecLen
    /\ page.number_of_records = 2
    /\ \A i \in 1..Len(page.slots) : ~page.slots[i].deleted

\* C25: PageDataLayout::new(page_size) fails with InvalidPageSize iff
\* page_size < 32, and an accepted layout has page_data_size =
\* page_size - 14, the size of the data of a page made from it.
C25_LayoutAcceptsFrom32 ==
    last.op = "new_layout" =>
        /\ (last.res = "err") <=> (last.size < 32)
        /\ (last.res = "ok") =>
              /\ page_size = last.size
              /\ page_data_size = last.size - 14
              /\ Len(page.data) = last.size - 14
              /\ page.data_offset = last.size - 14

\* C25: the smallest accepted size was accepted and gave a page of 18 data
\* bytes
C25_Witness ==
    /\ last.op = "new_layout"
    /\ last.size = 32
    /\ last.res = "ok"
    /\ page_data_size = 18

\* the deleted slots of p that can hold a record of len bytes
C26_Reusable(p, len) ==
    {i \in 1..Len(p.slots) :
        p.slots[i].deleted /\ p.slots[i].record_length >= len}

\* C26: an insert_record(R) that passes can_insert on a page with a deleted
\* slot of record_length >= len(R) reuses the first such slot S: R lies at
\* [S.page_offset, S.page_offset + len(R)), S is live with record_length
\* len(R), no slot is appended and data_offset is unchanged.
C26_ReusesFirstDeletedSlot ==
    [][\A r \in Records :
          (/\ InsertRecord(r)
           /\ C26_Reusable(page, Len(r)) # {}
           /\ ~space_remaining_overflows(page)) =>
              LET S == CHOOSE i \in C26_Reusable(page, Len(r)) :
                          \A j \in C26_Reusable(page, Len(r)) : i <= j
                  at == page.slots[S].page_offset
              IN /\ last'.res = "ok"
                 /\ Slice(page'.data, at, at + Len(r)) = r
                 /\ page'.slots =
                       [page.slots EXCEPT ![S] = Slot(Len(r), at, FALSE)]
                 /\ page'.data_offset = page.data_offset]_vars

\* C27: a successful insert_record(R) on a page without a deleted slot of
\* record_length >= len(R) lowers data_offset by len(R), stores R at the new
\* data_offset and appends exactly one live slot (page_offset = new
\* data_offset, record_length = len(R)); the earlier slots and the bytes from
\* the old data_offset on are unchanged.
C27_AppendsOneSlot ==
    [][\A r \in Records :
          (/\ InsertRecord(r)
           /\ last'.res = "ok"
           /\ C26_Reusable(page, Len(r)) = {}) =>
              /\ page'.data_offset = page.data_offset - Len(r)
              /\ Slice(page'.data, page'.data_offset, page.data_offset) = r
              /\ page'.slots =
                    Append(page.slots,
                           Slot(Len(r), page'.data_offset, FALSE))
              /\ Slice(page'.data, page.data_offset, page_data_size) =
                    Slice(page.data, page.data_offset, page_data_size)]_vars

\* C28: a PageIterator yields the page ids 1, 2, ... in that order, never
\* more than the pages the table had when the iterator was constructed, and
\* when it ends it has yielded exactly those; pages allocated after its
\* construction are not yielded.
C28_IteratesPagesAtConstruction ==
    (iter.state # "none") =>
        /\ iter.yielded = [k \in 1..Len(iter.yielded) |-> k]
        /\ Len(iter.yielded) <= iter.allocated_before
        /\ (iter.state = "ended") =>
              Len(iter.yielded) = iter.allocated_before

\* C28: an iterator constructed over two pages has ended after yielding
\* pages 1 and 2, and a third page was allocated in between
C28_Witness ==
    /\ iter.state = "ended"
    /\ iter.yielded = <<1, 2>>
    /\ Len(allocated) = 3
    /\ ~panicked

\* C29: allocate_page writes the metadata before the empty page: when the
\* operation has stopped between the two writes, the file's metadata has
\* number_of_pages greater than the number of pages present in the file.
C29_StoppedAllocationClaimsMissingPage ==
    (last.op = "allocate_stopped" /\ last.res = "stopped") =>
        pages_on_file > pages_present

\* C29: an allocation has stopped half-way on a file that holds one page:
\* the metadata counts two
C29_Witness ==
    /\ last.op = "allocate_stopped" /\ last.res = "stopped"
    /\ pages_present = 1
    /\ pages_on_file = 2
    /\ allocated = <<1>>

\* C30: a successful write_page of a page with id k >= 1 changes only the
\* bytes [8 + (k-1) * page_size, 8 + k * page_size) of the table file: the
\* header, every other page and the length of the file are as before.
C30_WritePageTouchesOwnRange ==
    [][(WritePage /\ last'.res = "ok") =>
          LET lo == 8 + (page.page_id - 1) * page_size
              hi == 8 + page.page_id * page_size
          IN /\ page.page_id >= 1
             /\ Len(file'.bytes) = Len(file.bytes)
             /\ \A i \in 1..Len(file.bytes) :
                   (i <= lo \/ i > hi) => file'.bytes[i] = file.bytes[i]]_vars

\* C30: page 2 was written with a record in it while page 1 of the file is
\* still the empty page that allocate_page wrote
C30_Witness ==
    /\ last.op = "write" /\ last.res = "ok"
    /\ page.page_id = 2
    /\ page.number_of_records = 1
    /\ PageBytes(file, 2) = serialize(page).bytes
    /\ PageBytes(file, 1) = serialize(set_page_id(Page_new, 1)).bytes

\* the metadata a read_metadata on table file f returns
C31_Metadata(f) ==
    IF f.exists THEN PageFileMetadata_deserialize(Slice(f.bytes, 0, 8))
    ELSE PageFileMetadata_new

\* the existing pages of f whose bytes differ in g
C31_Changed(f, g) ==
    {k \in 1..C31_Metadata(f).number_of_pages :
        PageBytes(g, k) # PageBytes(f, k)}

\* C31: a successful TableAccess.insert changes the metadata only when no
\* existing page accepted the row: then number_of_pages and next_id each
\* grow by exactly one, the row is the one record of the new page and no
\* existing page changes; otherwise the metadata is unchanged and exactly
\* one existing page changes.
C31_MetadataChangesOnlyOnAllocation ==
    [][\A row \in TableRows :
          (TableInsert(row) /\ last'.res = "ok") =>
             LET m == C31_Metadata(file)
                 accepts == {k \in 1..m.number_of_pages :
                               can_insert(
                                   read_page(file, k, overflow_checks).page,
                                   Row_serialize(row))}
             IN IF accepts = {}
                THEN /\ C31_Metadata(file') =
                          PageFileMetadata(m.next_id + 1,
                                           m.number_of_pages + 1)
                     /\ C31_Changed(file, file') = {}
                     /\ LET new == read_page(file', m.number_of_pages + 1,
                                             overflow_checks).page
                        IN /\ new.number_of_records = 1
                           /\ record_iterator(new).items =
                                 <<Record(0, Row_serialize(row))>>
                ELSE /\ C31_Metadata(file') = m
                     /\ Cardinality(C31_Changed(file, file')) = 1
                     /\ Len(file'.bytes) = Len(file.bytes)]_vars

\* C31: of three inserted rows the last went into page 2, which existed
\* already, and the metadata still counts two pages
C31_Witness ==
    /\ last.op = "table_insert" /\ last.res = "ok"
    /\ last.allocated_id = 0
    /\ last.page_id = 2
    /\ Len(inserted) = 3
    /\ C31_Metadata(file) = PageFileMetadata(3, 2)

\* the pages the metadata of the file counts but the file does not hold:
\* read_page on the first of them fails with an I/O error
C32_PageReadFails ==
    pages_on_file > pages_present

\* C32: an I/O failure at the store boundary is returned to the caller as
\* an error value and the program is not aborted: a load_all or find whose
\* scan meets a page that cannot be read does not panic.
C32_ReadFailureIsReturned ==
    [][(/\ C32_PageReadFails
        /\ (LoadAll \/ \E q \in FindQueries : Find(q[1], q[2])))
          => last'.res # "panic"]_vars

\* C33: no page with page_id 0 is stored in the table file: after every
\* step each page the file holds has the id of its position, and a
\* write_page of a page whose id is 0 fails and leaves the file as it was.
C33_PageZeroNeverStored ==
    [][/\ (file'.exists /\ Len(file'.bytes) >= metadata_size) =>
             \A k \in 1..((Len(file'.bytes) - metadata_size) \div page_size) :
                 deserialize(PageBytes(file', k)).page_id = k
       /\ (WritePage /\ page.page_id = 0) =>
             (file' = file /\ last'.res # "ok")]_vars

\* C33: write_page was called with a freshly constructed page on a file
\* that holds a page with a row
C33_Witness ==
    /\ last.op = "write"
    /\ page.page_id = 0
    /\ page = Page_new
    /\ pages_present >= 1
    /\ Len(inserted) >= 1

\* C34: every scan ends, each loop by a measure that a call of next moves
\* towards its bound.  A call of RecordIterator::next that yields a record
\* moves slot_index forward and never past len(slots), so it yields at most
\* len(slots) records; a PageIterator has read at most total_pages pages,
\* one more with each page it yields, and exactly total_pages (the
\* number_of_pages read at its construction) when next has returned None;
\* each row that PageRowIterator::next yields moves its offset forward and
\* never past the end of the row data; and on the file of a scan that ended
\* this way load_all returns.
C34_Bounded ==
    /\ Len(iter.yielded) <= Max2(iter.total_pages, 0)
    /\ (iter.state = "ended" => Len(iter.yielded) = Max2(iter.total_pages, 0))
    /\ cursor.rows.offset <= cursor.rows.end
    /\ (/\ ~panicked
        /\ last.op = "scan_page"
        /\ last.res = "none")
           => load_all(file, TableSchema, overflow_checks).res = "ok"

C34_Advances ==
    /\ (ScanNextRow /\ last'.res = "some")
           => cursor'.rows.offset > cursor.rows.offset
    /\ (RecordIterNext /\ last'.res = "some")
           => cursor'.records.slot_index > cursor.records.slot_index
    /\ RecordIterNext
           => /\ cursor'.records.slot_index <= Len(page.slots)
              /\ cursor'.records.steps <= cursor'.records.slot_index
    /\ (ScanNextPage /\ last'.res = "some")
           => /\ Len(iter'.yielded) = Len(iter.yielded) + 1
              /\ iter'.total_pages = iter.total_pages

C34_ScansTerminate ==
    /\ []C34_Bounded
    /\ [][C34_Advances]_vars

\* a scan has ended after two pages and three rows were read
C34_Witness ==
    /\ ~panicked
    /\ iter.state = "ended"
    /\ Len(iter.yielded) = 2
    /\ last.op = "scan_page"
    /\ last.res = "none"
    /\ Len(inserted) = 3

\* C35: a TableAccess.insert that returns an error leaves the page file as
\* it was: number_of_pages and next_id are the same as before the call, the
\* file has the same length and no page of it changed.
C35_FailedInsertLeavesFile ==
    [][\A row \in WideRows \cup WideInvalidRows :
          (WideInsert(row) /\ last'.res \notin {"ok", "panic"}) =>
             /\ C31_Metadata(file') = C31_Metadata(file)
             /\ C31_Changed(file, file') = {}
             /\ (file.exists => Len(file'.bytes) = Len(file.bytes))]_vars

\* C36: whenever can_insert(R) is true (it evaluated, and to true),
\* insert_record(R) returns Ok without a panic, also when a deleted slot
\* longer than R is reused.
C36_CanInsertImpliesOk ==
    [][\A r \in Records :
          (/\ InsertRecord(r)
           /\ ~(overflow_checks /\ space_remaining_overflows(page))
           /\ can_insert(page, r))
             => last'.res = "ok"]_vars

\* C37: on every page reached by successful insert_record calls the
\* subtraction of space_remaining does not underflow:
\* page_data_size - row_data_size - 7 * len(slots) >= 0.
C37_SpaceRemainingDefined ==
    ~panicked => page_data_size - row_data_size(page) - slot_size(page) >= 0

\* C38: every successful insert_record, for every record length including
\* 0, increases number_of_records by exactly one and makes record_iterator
\* yield exactly one record more.
C38_InsertAddsOneRecord ==
    [][\A r \in Records :
          (InsertRecord(r) /\ last'.res = "ok") =>
             /\ page'.number_of_records = page.number_of_records + 1
             /\ ~record_iterator(page').panic
             /\ Len(record_iterator(page').items) =
                   Len(record_iterator(page).items) + 1]_vars

\* C39: a successful allocate_page that returns page k changes only the
\* 8-byte header and the bytes [8 + (k-1) * page_size, 8 + k * page_size) of
\* the table file, where the file ends afterwards: every other byte is as
\* before, and so are the contents of every page allocated earlier.
C39_AllocatePageTouchesHeaderAndNewPage ==
    [][(AllocatePage /\ last'.res = "ok") =>
          LET lo == 8 + (last'.id - 1) * page_size
              hi == 8 + last'.id * page_size
          IN /\ last'.id >= 1
             /\ Len(file'.bytes) = hi
             /\ Len(file.bytes) <= Max2(lo, 0)
             /\ \A i \in 9..Len(file.bytes) :
                   file'.bytes[i] = file.bytes[i]
             /\ \A i \in 1..Len(allocated) :
                   PageBytes(file', allocated[i]) =
                      PageBytes(file, allocated[i])]_vars

\* C39: page 2 was allocated while page 1 of the file holds a record
C39_Witness ==
    /\ last.op = "allocate" /\ last.res = "ok"
    /\ last.id = 2
    /\ allocated = <<1, 2>>
    /\ read_page(file, 1, overflow_checks).res = "ok"
    /\ read_page(file, 1, overflow_checks).page.number_of_records = 1
    /\ PageBytes(file, 2) = serialize(set_page_id(Page_new, 2)).bytes

TypeOK ==
    /\ overflow_checks \in BOOLEAN
    /\ panicked \in BOOLEAN
    /\ Len(page.data) = page_data_size
    /\ \A i \in 1..Len(page.data) : page.data[i] \in Byte
====
